---- MODULE Spec2Model ----
(***************************************************************************)
(* The cross-thread call bridge of TextToModel: PendingCall, EventBridge,  *)
(* BridgeEventHandler (bridge/event_bridge.py) and ToolExecutor            *)
(* (bridge/executor.py).  Worker threads of the HTTP server run            *)
(* execute_tool; the host's single main thread runs register,              *)
(* set_executor, notify (with execute_and_respond) and unregister, one at  *)
(* a time and each to completion.  Every statement that touches shared     *)
(* state is a step of its own, so the threads interleave as they can in    *)
(* the program.                                                            *)
(***************************************************************************)
EXTENDS Integers, Sequences, FiniteSets, TLC

\* ------------------------------------------------------------- bounds
NumWorkers == 2
MaxCalls == 2
MaxSets == 3
NumThreads == 2
NumConns == 2
MaxFrames == 2

Workers == 1 .. NumWorkers
Host == 0
Free == 0 - 1

\* ------------------------------------------------------------- values
\* A Python value: None, a str, or a tool-result envelope whose text is kept
\* as the pieces str.format puts together.
PyNone == [tag |-> "None", text |-> << >>, isError |-> FALSE]
PyStr(s) == [tag |-> "str", text |-> <<s>>, isError |-> FALSE]
Envelope(text, isError) == [tag |-> "envelope", text |-> text, isError |-> isError]
\* what a worker's execute_tool call ended with: nothing yet, or an exception
NoReturn == [tag |-> "noreturn", text |-> << >>, isError |-> FALSE]
Raised(exc) == [tag |-> "raised", text |-> <<exc>>, isError |-> FALSE]

\* Python truth of a value: None and the empty str are false
Truthy(v) == v.tag # "None" /\ ~(v.tag = "str" /\ v.text = <<"">>)

ToolNames == {"echo", "does_not_exist"}
RegisteredTools == {"echo"}
Arguments == {"x=5"}
\* what an executor function can do: return a value or raise Exception(msg)
ReturnValues == {Envelope(<<"5">>, FALSE), Envelope(<<"Error in ", "echo", ": ", "boom">>, TRUE)}
ExceptionMessages == {"boom", ""}
Outcomes == {[raises |-> FALSE, value |-> v] : v \in ReturnValues}
              \cup {[raises |-> TRUE, value |-> PyStr(m)] : m \in ExceptionMessages}
NoOutcome == [raises |-> FALSE, value |-> PyNone]

VARIABLES
    app,            \* EventBridge._app: FALSE is None
    custom_event,   \* EventBridge._custom_event: FALSE is None
    handler,        \* EventBridge._handler: FALSE is None
    executor_fn,    \* BridgeEventHandler._executor_fn: FALSE is None
    pending,        \* EventBridge._pending: the dict's values in insertion order
    lock,           \* EventBridge._lock: Free or the thread that holds it
    calls,          \* every PendingCall created, by creation order
    queue,          \* the host's queue of fired custom events (payloads)
    wpc, wcall, wtool, wret,   \* per worker: position, its PendingCall, tool, return
    hpc, hpay, hcall, hres, hidx,  \* host thread: position, payload, call, outcome, loop index
    hexc,           \* host thread: an exception is propagating
    shorts,         \* execute_tool calls that created no PendingCall (bounds the run)
    invoked,        \* history: the threads that have run a tool invocation
    snap            \* the slots of a PendingCall as its first completing call left them

ebVars == <<app, custom_event, handler, executor_fn, pending, lock, calls, queue,
            wpc, wcall, wtool, wret, hpc, hpay, hcall, hres, hidx, hexc,
            shorts, invoked, snap>>

\* The MCP transport (mcp/sse_handler.py, mcp/protocol.py): the SSEManager,
\* its SSEConnections and the streams they write to, the HTTP server's
\* threads that use them, and one MCPProtocol.handle_request call.
VARIABLES
    connections,    \* SSEManager._connections: the session ids in insertion order
    manager_lock,   \* SSEManager._lock: Free or the thread that holds it
    conn_lock,      \* per SSEConnection: SSEConnection.lock, Free or its holder
    closed,         \* per SSEConnection: SSEConnection.closed
    wfile,          \* per SSEConnection: the socket's state and the bytes written
    created,        \* the SSEConnections constructed so far
    added,          \* history: the connections add_connection has inserted
    nframes,        \* send_event calls so far (each frame carries its number)
    tpc, tloc,      \* per server thread: position and locals
    request,        \* handle_request: the parsed request
    response,       \* handle_request: what the call returned
    proto           \* the MCPProtocol object, and history of its last call

sseVars == <<connections, manager_lock, conn_lock, closed, wfile, created, added,
             nframes, tpc, tloc>>
rpcVars == <<request, response, proto>>
mcpVars == <<sseVars, rpcVars>>

vars == <<ebVars, mcpVars>>

Threads == 1 .. NumThreads
Conns == 1 .. NumConns

\* a thread's locals outside any operation; ret keeps what its last
\* operation returned, excepted whether that send_event ran its except clause
NoLocals ==
    [op |-> "none", sid |-> 0, conn |-> 0, frame |-> 0, idx |-> 0, dead |-> << >>,
     ret |-> "none", excepted |-> FALSE]
\* a socket nobody has written to
NewFile == [broken |-> FALSE, stream |-> << >>]
NoRequest == [method |-> PyNone, params |-> PyNone, id |-> PyNone]
\* no MCPProtocol yet.  built, tool_executor and initialized are the object's
\* state (tool_executor FALSE is None); the rest is history of the last
\* handle_request call: that there was one, whether its handler raised,
\* whether it reached execute_tool and what execute_tool did
NoProto ==
    [built |-> FALSE, tool_executor |-> FALSE, initialized |-> FALSE,
     handled |-> FALSE, raised |-> FALSE, executed |-> FALSE, outcome |-> NoOutcome]

\* SSEManager.__init__, the server before any connection, and no request
InitMcp ==
    /\ connections = << >> /\ manager_lock = Free
    /\ conn_lock = [c \in Conns |-> Free]
    /\ closed = [c \in Conns |-> FALSE]
    /\ wfile = [c \in Conns |-> NewFile]
    /\ created = {} /\ added = {} /\ nframes = 0
    /\ tpc = [t \in Threads |-> "idle"]
    /\ tloc = [t \in Threads |-> NoLocals]
    /\ request = NoRequest /\ response = PyNone /\ proto = NoProto

bridgeVars == <<app, custom_event, handler, executor_fn>>
workerVars == <<wpc, wcall, wtool, wret>>
hostVars == <<hpc, hpay, hcall, hres, hidx, hexc>>
boundVars == <<shorts, invoked>>

\* ------------------------------------------------------- PendingCall
\* PendingCall.__init__: call_id is a fresh uuid4, here the creation number.
\* The fields from nset on are history: the completing calls received and
\* who made the last, the removals from the table and who made the last, what
\* the submitter's wait came to, and the executor function's runs for the call.
\* mutant: every PendingCall gets the same call_id
NewPendingCall_SameId(id, tool_name, arguments) ==
    [call_id |-> 1, tool_name |-> tool_name, arguments |-> arguments,
     result |-> PyNone, error |-> PyNone, event |-> FALSE,
     nset |-> 0, setby |-> "nobody", nremoved |-> 0, rmby |-> "nobody",
     waiter |-> "none", nexec |-> 0]

NewPendingCall(id, tool_name, arguments) ==
    [call_id |-> id, tool_name |-> tool_name, arguments |-> arguments,
     result |-> PyNone, error |-> PyNone, event |-> FALSE,
     nset |-> 0, setby |-> "nobody", nremoved |-> 0, rmby |-> "nobody",
     waiter |-> "none", nexec |-> 0]

\* set_result, first statement: self.result = result
WriteResult(cs, i, v, who) ==
    [cs EXCEPT ![i].result = v, ![i].nset = @ + 1, ![i].setby = who]
\* set_error, first statement: self.error = error
WriteError(cs, i, e, who) ==
    [cs EXCEPT ![i].error = e, ![i].nset = @ + 1, ![i].setby = who]
\* set_result / set_error, second statement: self.event.set()
EventSet(cs, i) == [cs EXCEPT ![i].event = TRUE]

set_result(cs, i, v, who) == EventSet(WriteResult(cs, i, v, who), i)
set_error(cs, i, e, who) == EventSet(WriteError(cs, i, e, who), i)

\* ------------------------------------------------------- the table
\* dict.get(call_id): the index in calls of the entry with that key, 0 for None
Lookup(p, id) ==
    IF \E k \in 1 .. Len(p) : calls[p[k]].call_id = id
    THEN p[CHOOSE k \in 1 .. Len(p) : calls[p[k]].call_id = id]
    ELSE 0
\* dict.pop(call_id, None)
Pop(p, id) == SelectSeq(p, LAMBDA c : calls[c].call_id # id)
\* self._pending[call.call_id] = call
Insert(p, c) ==
    IF Lookup(p, calls[c].call_id) # 0
    THEN [k \in 1 .. Len(p) |-> IF calls[p[k]].call_id = calls[c].call_id THEN c ELSE p[k]]
    ELSE Append(p, c)

\* ------------------------------------------------------- envelopes
UnknownTool(name) == Envelope(<<"Unknown tool: ", name>>, TRUE)
TimedOut(name) == Envelope(<<"Tool execution timed out: ", name>>, TRUE)
ErrorResult(e) == Envelope(<<"Error: ">> \o e.text, TRUE)

\* args.additionalInfo as json.dumps in submit_call writes it; fired_by is
\* history: who fired the event
Payload(id, tool_name, arguments) ==
    [wellformed |-> TRUE, call_id |-> id, tool_name |-> tool_name, arguments |-> arguments,
     fired_by |-> "submit_call"]
\* the same text fired by another party
ForeignPayload(id, tool_name, arguments) ==
    [Payload(id, tool_name, arguments) EXCEPT !.fired_by = "foreign"]
\* text that json.loads rejects (also: no payload in hand)
NoPayload ==
    [wellformed |-> FALSE, call_id |-> 0, tool_name |-> "", arguments |-> "",
     fired_by |-> "foreign"]
\* JSON without the key "call_id": payload["call_id"] raises KeyError
MissingKeys ==
    [wellformed |-> FALSE, call_id |-> 0, tool_name |-> "echo", arguments |-> "x=5",
     fired_by |-> "foreign"]

Init ==
    /\ app = FALSE /\ custom_event = FALSE /\ handler = FALSE /\ executor_fn = FALSE
    /\ pending = << >> /\ lock = Free /\ calls = << >> /\ queue = << >>
    /\ wpc = [w \in Workers |-> "idle"]
    /\ wcall = [w \in Workers |-> 0]
    /\ wtool = [w \in Workers |-> ""]
    /\ wret = [w \in Workers |-> NoReturn]
    /\ hpc = "idle" /\ hpay = NoPayload /\ hcall = 0 /\ hres = NoOutcome /\ hidx = 0
    /\ hexc = FALSE
    /\ shorts = 0 /\ invoked = {}
    /\ snap = <<PyNone, PyNone>>
    /\ InitMcp

\* ------------------------------------------------------- worker threads
\* mutant: execute_tool does not ask the registry
ExecuteTool_NoCheck(w, tool_name, arguments) ==
    /\ wpc[w] = "idle"
    /\ Len(calls) + shorts < MaxCalls
    /\ calls' = Append(calls, NewPendingCall(Len(calls) + 1, tool_name, arguments))
    /\ wcall' = [wcall EXCEPT ![w] = Len(calls) + 1]
    /\ wtool' = [wtool EXCEPT ![w] = tool_name]
    /\ wret' = [wret EXCEPT ![w] = NoReturn]
    /\ wpc' = [wpc EXCEPT ![w] = "submit_lock"]
    /\ shorts' = IF tool_name \in RegisteredTools THEN shorts ELSE shorts + 1
    /\ UNCHANGED <<bridgeVars, pending, lock, queue, hostVars, invoked, snap>>
    /\ UNCHANGED mcpVars

\* ToolExecutor.execute_tool up to the PendingCall's creation in submit_call:
\* an unknown tool returns at once; a known one creates the PendingCall.
ExecuteTool(w, tool_name, arguments) ==
    /\ wpc[w] = "idle"
    /\ Len(calls) + shorts < MaxCalls
    /\ IF tool_name \notin RegisteredTools
       THEN /\ wret' = [wret EXCEPT ![w] = UnknownTool(tool_name)]
            /\ wtool' = [wtool EXCEPT ![w] = tool_name]
            /\ wcall' = [wcall EXCEPT ![w] = 0]
            /\ shorts' = shorts + 1
            /\ UNCHANGED <<calls, wpc>>
       ELSE /\ calls' = Append(calls, NewPendingCall(Len(calls) + 1, tool_name, arguments))
            /\ wcall' = [wcall EXCEPT ![w] = Len(calls) + 1]
            /\ wtool' = [wtool EXCEPT ![w] = tool_name]
            /\ wret' = [wret EXCEPT ![w] = NoReturn]
            /\ wpc' = [wpc EXCEPT ![w] = "submit_lock"]
            /\ UNCHANGED shorts
    /\ UNCHANGED <<bridgeVars, pending, lock, queue, hostVars, invoked, snap>>
    /\ UNCHANGED mcpVars

\* submit_call: with self._lock (acquire)
SubmitAcquire(w) ==
    /\ wpc[w] = "submit_lock"
    /\ lock = Free
    /\ lock' = w
    /\ wpc' = [wpc EXCEPT ![w] = "submit_insert"]
    /\ UNCHANGED <<bridgeVars, pending, calls, queue, wcall, wtool, wret, hostVars,
                   boundVars, snap>>
    /\ UNCHANGED mcpVars

\* submit_call: self._pending[call.call_id] = call, and the lock's release
SubmitInsert(w) ==
    /\ wpc[w] = "submit_insert"
    /\ lock = w
    /\ pending' = Insert(pending, wcall[w])
    /\ lock' = Free
    /\ wpc' = [wpc EXCEPT ![w] = "submit_fire"]
    /\ UNCHANGED <<bridgeVars, calls, queue, wcall, wtool, wret, hostVars,
                   boundVars, snap>>
    /\ UNCHANGED mcpVars

\* mutant: the event is fired twice
FireCustomEvent_Twice(q, payload) ==
    IF custom_event THEN Append(Append(q, payload), payload) ELSE q

\* the host's fireCustomEvent: queues the payload for the registered event's
\* handler; an event id that is not registered has no queue
FireCustomEvent(q, payload) == IF custom_event THEN Append(q, payload) ELSE q

\* mutant: submit_call runs the tool in the submitting thread
SubmitFire_RunsTool(w) ==
    /\ wpc[w] = "submit_fire"
    /\ invoked' = invoked \cup {w}
    /\ calls' = [calls EXCEPT ![wcall[w]].waiter = "waiting", ![wcall[w]].nexec = @ + 1]
    /\ wpc' = [wpc EXCEPT ![w] = "wait"]
    /\ UNCHANGED <<bridgeVars, pending, lock, queue, wcall, wtool, wret, hostVars, shorts, snap>>
    /\ UNCHANGED mcpVars

\* submit_call: json.dumps and self._app.fireCustomEvent; with _app None the
\* attribute access raises and the exception leaves execute_tool
SubmitFire(w) ==
    /\ wpc[w] = "submit_fire"
    /\ IF app
       THEN /\ queue' = FireCustomEvent(queue,
                  Payload(calls[wcall[w]].call_id, calls[wcall[w]].tool_name,
                          calls[wcall[w]].arguments))
            /\ wpc' = [wpc EXCEPT ![w] = "wait"]
            /\ calls' = [calls EXCEPT ![wcall[w]].waiter = "waiting"]
            /\ UNCHANGED wret
       ELSE /\ wret' = [wret EXCEPT ![w] = Raised("AttributeError")]
            /\ wpc' = [wpc EXCEPT ![w] = "idle"]
            /\ UNCHANGED <<queue, calls>>
    /\ UNCHANGED <<bridgeVars, pending, lock, wcall, wtool, hostVars, boundVars, snap>>
    /\ UNCHANGED mcpVars

\* mutant: wait sleeps through the timeout without looking at the flag
wait_Blind(call) == FALSE

\* PendingCall.wait: what self.event.wait(timeout) returns when it returns,
\* the flag of the threading.Event
wait(call) == call.event

\* PendingCall.wait returns True: the event is set
WaitSignaled(w) ==
    /\ wpc[w] = "wait"
    /\ wait(calls[wcall[w]])
    /\ wpc' = [wpc EXCEPT ![w] = "read"]
    /\ calls' = [calls EXCEPT ![wcall[w]].waiter = "signaled"]
    /\ UNCHANGED <<bridgeVars, pending, lock, queue, wcall, wtool, wret, hostVars,
                   boundVars, snap>>
    /\ UNCHANGED mcpVars

\* mutant: the wait has no timeout, the waiter stays where it is
TimeoutPath_NoTimeout(w) ==
    /\ UNCHANGED <<wret, wpc, calls, pending, lock, queue>>
    /\ UNCHANGED mcpVars

\* mutant: the timed-out waiter removes its own entry from the table
TimeoutPath_Removes(w) ==
    /\ wret' = [wret EXCEPT ![w] = TimedOut(wtool[w])]
    /\ wpc' = [wpc EXCEPT ![w] = "idle"]
    /\ calls' = [calls EXCEPT ![wcall[w]].waiter = "timedout"]
    /\ pending' = Pop(pending, calls[wcall[w]].call_id)
    /\ UNCHANGED <<lock, queue>>
    /\ UNCHANGED mcpVars

\* what _execute_via_bridge does when wait returned False
TimeoutPath(w) ==
    /\ wret' = [wret EXCEPT ![w] = TimedOut(wtool[w])]
    /\ wpc' = [wpc EXCEPT ![w] = "idle"]
    /\ calls' = [calls EXCEPT ![wcall[w]].waiter = "timedout"]
    /\ UNCHANGED <<pending, lock, queue>>
    /\ UNCHANGED mcpVars

\* PendingCall.wait returns False: the timeout elapsed with the event not set
WaitTimeout(w) ==
    /\ wpc[w] = "wait"
    /\ ~wait(calls[wcall[w]])
    /\ TimeoutPath(w)
    /\ UNCHANGED <<bridgeVars, wcall, wtool, hostVars, boundVars, snap>>
    /\ UNCHANGED mcpVars

\* mutant: the result is put into a fresh envelope
BridgeResult_Rewraps(call) ==
    IF Truthy(call.error) THEN ErrorResult(call.error) ELSE Envelope(call.result.text, FALSE)

\* mutant: the error slot is not looked at
BridgeResult_IgnoresError(call) == call.result

\* _execute_via_bridge after a signalled wait: if call.error: ... return call.result
BridgeResult(call) ==
    IF Truthy(call.error) THEN ErrorResult(call.error) ELSE call.result

ReadOutcome(w) ==
    /\ wpc[w] = "read"
    /\ wret' = [wret EXCEPT ![w] = BridgeResult(calls[wcall[w]])]
    /\ wpc' = [wpc EXCEPT ![w] = "idle"]
    /\ UNCHANGED <<bridgeVars, pending, lock, calls, queue, wcall, wtool, hostVars,
                   boundVars, snap>>
    /\ UNCHANGED mcpVars

Worker(w) ==
    \/ \E t \in ToolNames, a \in Arguments : ExecuteTool(w, t, a)
    \/ SubmitAcquire(w)
    \/ SubmitInsert(w)
    \/ SubmitFire(w)
    \/ WaitSignaled(w)
    \/ WaitTimeout(w)
    \/ ReadOutcome(w)

\* ------------------------------------------------------- host thread
\* the marks the history keeps of a removal from the table
Removed(cs, gone, who) ==
    [i \in 1 .. Len(cs) |->
        IF i \in gone THEN [cs[i] EXCEPT !.nremoved = @ + 1, !.rmby = who] ELSE cs[i]]
Values(p) == {p[k] : k \in 1 .. Len(p)}

\* EventBridge.register; run() registers each EventBridge it creates once
Register ==
    /\ hpc = "idle"
    /\ ~app
    /\ app' = TRUE /\ custom_event' = TRUE /\ handler' = TRUE /\ executor_fn' = FALSE
    /\ UNCHANGED <<pending, lock, calls, queue, workerVars, hostVars, boundVars, snap>>
    /\ UNCHANGED mcpVars

\* BridgeEventHandler.set_executor, as run() calls it
SetExecutor ==
    /\ hpc = "idle"
    /\ handler
    /\ ~executor_fn
    /\ executor_fn' = TRUE
    /\ UNCHANGED <<app, custom_event, handler, pending, lock, calls, queue, workerVars,
                   hostVars, boundVars, snap>>
    /\ UNCHANGED mcpVars

\* BridgeEventHandler.notify, to the branch on self._executor_fn: a payload
\* that does not parse raises inside the try and is logged
AfterParse(payload) ==
    IF ~payload.wellformed THEN "except"
    ELSE IF executor_fn THEN "ear_lock" ELSE "ne_lock"

\* the host delivers the signal at the head of its queue to notify
Notify ==
    /\ hpc = "idle"
    /\ custom_event /\ handler
    /\ queue # << >>
    /\ queue' = Tail(queue)
    /\ hpay' = Head(queue)
    /\ hpc' = AfterParse(Head(queue))
    /\ hexc' = ~Head(queue).wellformed
    /\ UNCHANGED <<bridgeVars, pending, lock, calls, workerVars, hcall, hres, hidx,
                   boundVars, snap>>
    /\ UNCHANGED mcpVars

\* what args.additionalInfo can hold when the event was not fired by
\* submit_call, or is delivered again: text that does not parse, or any call id
ForeignPayloads ==
    {NoPayload, MissingKeys}
    \cup {ForeignPayload(id, t, a) : id \in 1 .. MaxCalls, t \in RegisteredTools, a \in Arguments}

\* the host delivers to notify a signal that another party fired on the same
\* event id
NotifyForeign(payload) ==
    /\ hpc = "idle"
    /\ custom_event /\ handler
    /\ hpay' = payload
    /\ hpc' = AfterParse(payload)
    /\ hexc' = ~payload.wellformed
    /\ UNCHANGED <<bridgeVars, pending, lock, calls, queue, workerVars, hcall, hres, hidx,
                   boundVars, snap>>
    /\ UNCHANGED mcpVars

\* mutant: notify has no except clause
NotifyCatches_Propagates(propagating) == propagating

\* notify: except Exception as e: logger.exception(...)
NotifyCatches(propagating) == FALSE

\* notify's except clause and its return, for an exception raised by the
\* parse or left uncaught by execute_and_respond
NotifyExcept ==
    /\ hpc = "except"
    /\ hexc' = NotifyCatches(hexc)
    /\ hpay' = NoPayload
    /\ hpc' = "idle"
    /\ UNCHANGED <<bridgeVars, pending, lock, calls, queue, workerVars, hcall, hres, hidx,
                   boundVars, snap>>
    /\ UNCHANGED mcpVars

\* get_pending_call: with self._lock (acquire)
GetAcquire ==
    /\ hpc \in {"ear_lock", "ne_lock"}
    /\ lock = Free
    /\ lock' = Host
    /\ hpc' = IF hpc = "ear_lock" THEN "ear_get" ELSE "ne_get"
    /\ UNCHANGED <<bridgeVars, pending, calls, queue, workerVars, hpay, hcall, hres, hidx,
                   hexc, boundVars, snap>>
    /\ UNCHANGED mcpVars

\* mutant: the lock taken for the lookup is kept
AfterGet_Keeps(holder) == holder

\* get_pending_call: the end of the with block releases the lock
AfterGet(holder) == Free

\* mutant: no check for None
EarAfterGet_NoCheck(call) == "ear_exec"

\* execute_and_respond: if call is None: ... return
EarAfterGet(call) == IF call = 0 THEN "idle" ELSE "ear_exec"

\* execute_and_respond: call = self.get_pending_call(call_id)
EarGet ==
    /\ hpc = "ear_get"
    /\ lock = Host
    /\ lock' = AfterGet(lock)
    /\ hcall' = Lookup(pending, hpay.call_id)
    /\ hpc' = EarAfterGet(Lookup(pending, hpay.call_id))
    /\ hpay' = IF hpc' = "idle" THEN NoPayload ELSE hpay
    /\ UNCHANGED <<bridgeVars, pending, calls, queue, workerVars, hres, hidx,
                   hexc, boundVars, snap>>
    /\ UNCHANGED mcpVars

\* execute_and_respond: result = executor_fn(tool_name, arguments)
EarExec(outcome) ==
    /\ hpc = "ear_exec"
    /\ hres' = outcome
    /\ hexc' = outcome.raises
    /\ calls' = [calls EXCEPT ![hcall].nexec = @ + 1]
    /\ invoked' = invoked \cup {Host}
    /\ hpc' = IF outcome.raises THEN "ear_error" ELSE "ear_result"
    /\ UNCHANGED <<bridgeVars, pending, lock, queue, workerVars, hpay, hcall, hidx,
                   shorts, snap>>
    /\ UNCHANGED mcpVars

\* mutant: the completing call sets the event as its first statement, before
\* the slot is assigned
EarComplete_SignalsFirst(cs, i, outcome) == EventSet(cs, i)

\* mutant: the except branch logs and completes nothing
EarComplete_Swallows(cs, i, outcome) ==
    IF outcome.raises THEN cs ELSE WriteResult(cs, i, outcome.value, "dispatcher")

\* the completing call of execute_and_respond, first statement:
\* call.set_result(result), or in the except branch call.set_error(str(e))
EarComplete(cs, i, outcome) ==
    IF outcome.raises THEN WriteError(cs, i, outcome.value, "dispatcher")
                      ELSE WriteResult(cs, i, outcome.value, "dispatcher")

\* execute_and_respond: except Exception as e catches what the try raised
ExceptException(propagating) == FALSE

EarWrite ==
    /\ hpc \in {"ear_result", "ear_error"}
    /\ calls' = EarComplete(calls, hcall, hres)
    /\ hexc' = IF hpc = "ear_error" THEN ExceptException(hexc) ELSE hexc
    /\ hpc' = "ear_event"
    /\ UNCHANGED <<bridgeVars, pending, lock, queue, workerVars, hpay, hcall, hres, hidx,
                   boundVars, snap>>
    /\ UNCHANGED mcpVars

\* set_result / set_error of the dispatcher, second statement
EarEvent ==
    /\ hpc \in {"ear_event", "ne_event"}
    /\ calls' = EventSet(calls, hcall)
    /\ hpc' = "rm_lock"
    /\ UNCHANGED <<bridgeVars, pending, lock, queue, workerVars, hpay, hcall, hres, hidx,
                   hexc, boundVars, snap>>
    /\ UNCHANGED mcpVars

\* remove_pending_call: with self._lock (acquire)
RemoveAcquire ==
    /\ hpc = "rm_lock"
    /\ lock = Free
    /\ lock' = Host
    /\ hpc' = "rm_pop"
    /\ UNCHANGED <<bridgeVars, pending, calls, queue, workerVars, hpay, hcall, hres, hidx,
                   hexc, boundVars, snap>>
    /\ UNCHANGED mcpVars

\* mutant: the completion path leaves the entry in the table
AfterCompletion_Leaks(p, id) == p

\* the table after the finally of execute_and_respond (and after notify's
\* own removal): self._pending.pop(call_id, None)
AfterCompletion(p, id) == Pop(p, id)

RemovePop ==
    /\ hpc = "rm_pop"
    /\ lock = Host
    /\ pending' = AfterCompletion(pending, hpay.call_id)
    /\ calls' = Removed(calls, Values(pending) \ Values(AfterCompletion(pending, hpay.call_id)),
                        "completion")
    /\ lock' = Free
    \* an exception the except clause did not take goes on to notify's
    /\ hpc' = IF hexc THEN "except" ELSE "idle"
    \* notify returns: its locals are gone
    /\ hpay' = NoPayload /\ hcall' = 0 /\ hres' = NoOutcome
    /\ UNCHANGED <<bridgeVars, queue, workerVars, hidx, hexc, boundVars, snap>>
    /\ UNCHANGED mcpVars

\* notify without an executor: call = self._bridge.get_pending_call(call_id)
NeGet ==
    /\ hpc = "ne_get"
    /\ lock = Host
    /\ lock' = AfterGet(lock)
    /\ hcall' = Lookup(pending, hpay.call_id)
    /\ hpc' = IF Lookup(pending, hpay.call_id) = 0 THEN "idle" ELSE "ne_error"
    /\ hpay' = IF hpc' = "idle" THEN NoPayload ELSE hpay
    /\ UNCHANGED <<bridgeVars, pending, calls, queue, workerVars, hres, hidx,
                   hexc, boundVars, snap>>
    /\ UNCHANGED mcpVars

NoExecutorError == PyStr("No executor configured")

\* mutant: the message is stored as a result
NoExecutorComplete_AsResult(cs, i) == WriteResult(cs, i, NoExecutorError, "no_executor")

\* notify without an executor: call.set_error("No executor configured"), first statement
NoExecutorComplete(cs, i) == WriteError(cs, i, NoExecutorError, "no_executor")

NeWrite ==
    /\ hpc = "ne_error"
    /\ calls' = NoExecutorComplete(calls, hcall)
    /\ hpc' = "ne_event"
    /\ UNCHANGED <<bridgeVars, pending, lock, queue, workerVars, hpay, hcall, hres, hidx,
                   hexc, boundVars, snap>>
    /\ UNCHANGED mcpVars

\* mutant: no test of self._app and self._custom_event and no try: on a
\* bridge that holds no event object the deregistration raises
Unregister_Unguarded ==
    /\ hpc = "idle"
    /\ IF app /\ custom_event
       THEN /\ custom_event' = FALSE /\ handler' = FALSE /\ executor_fn' = FALSE
            /\ hpc' = "sweep_lock"
            /\ UNCHANGED hexc
       ELSE /\ hexc' = TRUE
            /\ UNCHANGED <<custom_event, handler, executor_fn, hpc>>
    /\ UNCHANGED <<app, pending, lock, calls, queue, workerVars, hpay, hcall, hres, hidx,
                   boundVars, snap>>
    /\ UNCHANGED mcpVars

\* EventBridge.unregister, to the with self._lock
Unregister ==
    /\ hpc = "idle"
    /\ IF app /\ custom_event
       THEN custom_event' = FALSE /\ handler' = FALSE /\ executor_fn' = FALSE
       ELSE UNCHANGED <<custom_event, handler, executor_fn>>
    /\ hpc' = "sweep_lock"
    /\ UNCHANGED <<app, pending, lock, calls, queue, workerVars, hpay, hcall, hres, hidx,
                   hexc, boundVars, snap>>
    /\ UNCHANGED mcpVars

SweepAcquire ==
    /\ hpc = "sweep_lock"
    /\ lock = Free
    /\ lock' = Host
    /\ hidx' = 1
    /\ hpc' = "sweep"
    /\ UNCHANGED <<bridgeVars, pending, calls, queue, workerVars, hpay, hcall, hres,
                   hexc, boundVars, snap>>
    /\ UNCHANGED mcpVars

ShutdownError == PyStr("Bridge shutting down")

\* unregister: for call in self._pending.values(): call.set_error(...), first statement
SweepWrite ==
    /\ hpc = "sweep"
    /\ hidx <= Len(pending)
    /\ calls' = WriteError(calls, pending[hidx], ShutdownError, "unregister")
    /\ hpc' = "sweep_event"
    /\ UNCHANGED <<bridgeVars, pending, lock, queue, workerVars, hpay, hcall, hres, hidx,
                   hexc, boundVars, snap>>
    /\ UNCHANGED mcpVars

SweepEvent ==
    /\ hpc = "sweep_event"
    /\ calls' = EventSet(calls, pending[hidx])
    /\ hidx' = hidx + 1
    /\ hpc' = "sweep"
    /\ UNCHANGED <<bridgeVars, pending, lock, queue, workerVars, hpay, hcall, hres,
                   hexc, boundVars, snap>>
    /\ UNCHANGED mcpVars

\* unregister: self._pending.clear(), the lock's release and the return
SweepClear ==
    /\ hpc = "sweep"
    /\ hidx > Len(pending)
    /\ pending' = << >>
    /\ calls' = Removed(calls, Values(pending), "unregister")
    /\ lock' = Free
    /\ hidx' = 0
    /\ hpc' = "idle"
    /\ UNCHANGED <<bridgeVars, queue, workerVars, hpay, hcall, hres, hexc, boundVars, snap>>
    /\ UNCHANGED mcpVars

HostThread ==
    \/ Register
    \/ SetExecutor
    \/ Notify
    \/ \E p \in ForeignPayloads : NotifyForeign(p)
    \/ NotifyExcept
    \/ GetAcquire
    \/ EarGet
    \/ \E o \in Outcomes : EarExec(o)
    \/ EarWrite
    \/ EarEvent
    \/ RemoveAcquire
    \/ RemovePop
    \/ NeGet
    \/ NeWrite
    \/ Unregister
    \/ SweepAcquire
    \/ SweepWrite
    \/ SweepEvent
    \/ SweepClear

Next ==
    \/ \E w \in Workers : Worker(w)
    \/ HostThread

Spec == Init /\ [][Next]_vars

\* ------------------------------------------------------- fairness
\* A thread that is running runs on: a worker inside execute_tool takes its
\* next step (a wait with a finite timeout ends), a worker queued on the lock
\* gets it if it keeps being released, and whoever holds the lock finishes its
\* table operation.  The host thread, once it asks for the lock, takes it when
\* it stays free.  Nothing obliges the host to deliver a signal, to finish a tool
\* or to call unregister.
WorkerRuns(w) ==
    \/ SubmitInsert(w)
    \/ SubmitFire(w)
    \/ WaitSignaled(w)
    \/ WaitTimeout(w)
    \/ ReadOutcome(w)

HostHoldsLock ==
    \/ EarGet
    \/ NeGet
    \/ RemovePop
    \/ SweepWrite
    \/ SweepEvent
    \/ SweepClear

HostAcquires ==
    \/ GetAcquire
    \/ RemoveAcquire
    \/ SweepAcquire

FairSpec ==
    /\ Spec
    /\ \A w \in Workers : WF_vars(WorkerRuns(w)) /\ SF_vars(SubmitAcquire(w))
    /\ WF_vars(HostHoldsLock)
    /\ WF_vars(HostAcquires)

\* ------------------------------------------------------- one PendingCall
\* A single PendingCall driven directly: any sequence of set_result and
\* set_error calls, each run to its end.
UnitResults ==
    ReturnValues \cup {Envelope(<<"6">>, FALSE)}
UnitErrors == {PyStr(m) : m \in ExceptionMessages} \cup {ShutdownError, NoExecutorError}

InitPendingCall ==
    /\ app = FALSE /\ custom_event = FALSE /\ handler = FALSE /\ executor_fn = FALSE
    /\ pending = << >> /\ lock = Free /\ queue = << >>
    /\ \E t \in RegisteredTools, a \in Arguments : calls = <<NewPendingCall(1, t, a)>>
    /\ wpc = [w \in Workers |-> "idle"]
    /\ wcall = [w \in Workers |-> 0]
    /\ wtool = [w \in Workers |-> ""]
    /\ wret = [w \in Workers |-> NoReturn]
    /\ hpc = "idle" /\ hpay = NoPayload /\ hcall = 0 /\ hres = NoOutcome /\ hidx = 0
    /\ hexc = FALSE
    /\ shorts = 0 /\ invoked = {}
    /\ snap = <<PyNone, PyNone>>
    /\ InitMcp

Slots(call) == <<call.result, call.error>>

CallSetResult(v) ==
    /\ calls[1].nset < MaxSets
    /\ calls' = set_result(calls, 1, v, "test")
    /\ snap' = IF calls[1].nset = 0 THEN Slots(set_result(calls, 1, v, "test")[1]) ELSE snap
    /\ UNCHANGED <<bridgeVars, pending, lock, queue, workerVars, hostVars, boundVars>>
    /\ UNCHANGED mcpVars

CallSetError(e) ==
    /\ calls[1].nset < MaxSets
    /\ calls' = set_error(calls, 1, e, "test")
    /\ snap' = IF calls[1].nset = 0 THEN Slots(set_error(calls, 1, e, "test")[1]) ELSE snap
    /\ UNCHANGED <<bridgeVars, pending, lock, queue, workerVars, hostVars, boundVars>>
    /\ UNCHANGED mcpVars

NextPendingCall ==
    \/ \E v \in UnitResults : CallSetResult(v)
    \/ \E e \in UnitErrors : CallSetError(e)

SpecPendingCall == InitPendingCall /\ [][NextPendingCall]_vars

\* ------------------------------------------------------- remove_pending_call
\* remove_pending_call driven directly: a table that holds every call, and
\* threads that call remove_pending_call with any of the ids, as often as
\* they like and at the same time.

InitRemove ==
    /\ app = FALSE /\ custom_event = FALSE /\ handler = FALSE /\ executor_fn = FALSE
    /\ lock = Free /\ queue = << >>
    /\ calls = [i \in 1 .. MaxCalls + 1 |-> NewPendingCall(i, "echo", "x=5")]
    /\ pending = [i \in 1 .. MaxCalls + 1 |-> i]
    /\ wpc = [w \in Workers |-> "idle"]
    /\ wcall = [w \in Workers |-> 0]
    /\ wtool = [w \in Workers |-> ""]
    /\ wret = [w \in Workers |-> NoReturn]
    /\ hpc = "idle" /\ hpay = NoPayload /\ hcall = 0 /\ hres = NoOutcome /\ hidx = 0
    /\ hexc = FALSE
    /\ shorts = 0 /\ invoked = {}
    /\ snap = <<PyNone, PyNone>>
    /\ InitMcp

\* the call of remove_pending_call(call_id), to the with self._lock
RemoveCall(w, id) ==
    /\ wpc[w] = "idle"
    /\ wcall' = [wcall EXCEPT ![w] = id]
    /\ wret' = [wret EXCEPT ![w] = NoReturn]
    /\ wpc' = [wpc EXCEPT ![w] = "rm_lock"]
    /\ UNCHANGED <<bridgeVars, pending, lock, calls, queue, wtool, hostVars, boundVars, snap>>
    /\ UNCHANGED mcpVars

\* remove_pending_call: with self._lock (acquire)
RemoveLock(w) ==
    /\ wpc[w] = "rm_lock"
    /\ lock = Free
    /\ lock' = w
    /\ wpc' = [wpc EXCEPT ![w] = "rm_pop"]
    /\ UNCHANGED <<bridgeVars, pending, calls, queue, wcall, wtool, wret, hostVars,
                   boundVars, snap>>
    /\ UNCHANGED mcpVars

\* mutant: pop without the default raises KeyError for an absent key
remove_pending_call_NoDefault(p, id) ==
    [table |-> Pop(p, id), returns |-> IF Lookup(p, id) = 0 THEN Raised("KeyError") ELSE PyNone]

\* remove_pending_call: self._pending.pop(call_id, None); the method returns None
remove_pending_call(p, id) ==
    [table |-> Pop(p, id), returns |-> PyNone]

\* remove_pending_call: the pop, the lock's release and the return
RemoveUnlock(w) ==
    /\ wpc[w] = "rm_pop"
    /\ lock = w
    /\ pending' = remove_pending_call(pending, wcall[w]).table
    /\ calls' = Removed(calls, Values(pending) \ Values(remove_pending_call(pending, wcall[w]).table),
                        "completion")
    /\ wret' = [wret EXCEPT ![w] = remove_pending_call(pending, wcall[w]).returns]
    /\ lock' = Free
    /\ wpc' = [wpc EXCEPT ![w] = "idle"]
    /\ UNCHANGED <<bridgeVars, queue, wcall, wtool, hostVars, boundVars, snap>>
    /\ UNCHANGED mcpVars

NextRemove ==
    \E w \in Workers :
        \/ \E id \in 1 .. MaxCalls + 1 : RemoveCall(w, id)
        \/ RemoveLock(w)
        \/ RemoveUnlock(w)

SpecRemove == InitRemove /\ [][NextRemove]_vars

\* ------------------------------------------------------- direct mode
\* A ToolExecutor built with event_bridge None: worker threads run
\* execute_tool, which calls registry.call_tool in the calling thread.

\* a Python int, the value kept in text
PyInt(n) == [tag |-> "int", text |-> <<n>>, isError |-> FALSE]
Digits == <<"0", "1", "2", "3", "4", "5", "6", "7", "8", "9">>
\* json.dumps(result, default=str) of an int below ten
JsonDumps(v) == <<Digits[v.text[1] + 1]>>

\* what a tool handler can do: return a dict with "content", a str or
\* another value, or raise Exception(msg)
HandlerReturns ==
    {Envelope(<<"done">>, FALSE), Envelope(<<"refused">>, TRUE), PyStr("ok"), PyInt(5)}
HandlerOutcomes ==
    {[raises |-> FALSE, value |-> v] : v \in HandlerReturns}
    \cup {[raises |-> TRUE, value |-> PyStr(m)] : m \in ExceptionMessages}

\* mutant: call_tool has no except clause
call_tool_Reraises(name, outcome) ==
    IF outcome.raises THEN Raised("Exception")
    ELSE IF outcome.value.tag = "envelope" THEN outcome.value
    ELSE IF outcome.value.tag = "str" THEN Envelope(outcome.value.text, FALSE)
    ELSE Envelope(JsonDumps(outcome.value), FALSE)

\* ToolRegistry.call_tool for a registered name: the handler's outcome as an
\* MCP result
call_tool(name, outcome) ==
    IF outcome.raises
    THEN Envelope(<<"Error in ", name, ": ">> \o outcome.value.text, TRUE)
    ELSE IF outcome.value.tag = "envelope" THEN outcome.value
    ELSE IF outcome.value.tag = "str" THEN Envelope(outcome.value.text, FALSE)
    ELSE Envelope(JsonDumps(outcome.value), FALSE)

\* execute_tool to the call of the handler: has_tool, then _execute_direct
DirectExecuteTool(w, tool_name, arguments) ==
    /\ wpc[w] = "idle"
    /\ wtool' = [wtool EXCEPT ![w] = tool_name]
    /\ IF tool_name \notin RegisteredTools
       THEN /\ wret' = [wret EXCEPT ![w] = UnknownTool(tool_name)]
            /\ UNCHANGED wpc
       ELSE /\ wret' = [wret EXCEPT ![w] = NoReturn]
            /\ wpc' = [wpc EXCEPT ![w] = "call_tool"]
    /\ UNCHANGED <<bridgeVars, pending, lock, calls, queue, wcall, hostVars, boundVars, snap>>
    /\ UNCHANGED mcpVars

\* call_tool: result = handler(app, **arguments), and the return through
\* _execute_direct and execute_tool
DirectCallTool(w, outcome) ==
    /\ wpc[w] = "call_tool"
    /\ invoked' = invoked \cup {w}
    /\ wret' = [wret EXCEPT ![w] = call_tool(wtool[w], outcome)]
    /\ wpc' = [wpc EXCEPT ![w] = "idle"]
    /\ UNCHANGED <<bridgeVars, pending, lock, calls, queue, wcall, wtool, hostVars,
                   shorts, snap>>
    /\ UNCHANGED mcpVars

NextDirect ==
    \E w \in Workers :
        \/ \E t \in ToolNames, a \in Arguments : DirectExecuteTool(w, t, a)
        \/ \E o \in HandlerOutcomes : DirectCallTool(w, o)

SpecDirect == Init /\ [][NextDirect]_vars

\* ------------------------------------------------------- run()'s wiring
\* ToolExecutor.direct_execute, the executor function run() hands to
\* set_executor: registry.call_tool, which returns an envelope and raises
\* nothing
direct_execute(name, outcome) == [raises |-> FALSE, value |-> call_tool(name, outcome)]

\* the executor function's outcome is that of direct_execute for what the
\* tool's handler did
WiredExecutor ==
    (hpc = "ear_exec" /\ hpc' # hpc) =>
        \E h \in HandlerOutcomes : hres' = direct_execute(hpay.tool_name, h)

NextWired == Next /\ WiredExecutor

SpecWired == Init /\ [][NextWired]_vars

\* ------------------------------------------------------- shorthands
\* the host thread is between the lookup of call i and the end of its removal
HostBusyWith(i) ==
    /\ hcall = i
    /\ hpc \in {"ear_exec", "ear_result", "ear_error", "ear_event", "ne_error", "ne_event",
                "rm_lock", "rm_pop"}
InTable(i) == i \in Values(pending)
InBridge(w) == wpc[w] \in {"submit_lock", "submit_insert", "submit_fire", "wait", "read"}
Returned(w) == wpc[w] = "idle" /\ wret[w].tag \notin {"noreturn", "raised"}
\* the functional fields of every PendingCall, without the history
CallData(cs) ==
    [i \in 1 .. Len(cs) |-> <<cs[i].call_id, cs[i].tool_name, cs[i].arguments,
                               cs[i].result, cs[i].error, cs[i].event>>]

\* ------------------------------------------------------- claims
\* C1: on a registered bridge every worker that is inside the bridged
\* execute_tool (submitting, waiting or reading the outcome) eventually has
\* execute_tool return a value to it (a result, an error envelope or the
\* timed-out envelope), whatever the host does: deliver the signal, never
\* deliver it, or unregister meanwhile.  Checked under FairSpec.
C1_EveryCallReturns ==
    \A w \in Workers : (InBridge(w) /\ app) ~> Returned(w)

\* C1 witness: a worker got the timed-out envelope back while the signal of
\* its call is still undelivered in the host's queue.
C1_Witness ==
    \E w \in Workers :
        /\ Returned(w)
        /\ wret[w] = TimedOut(wtool[w])
        /\ \E k \in 1 .. Len(queue) : queue[k].call_id = calls[wcall[w]].call_id

\* C2: no PendingCall receives more than one completing call (set_result or
\* set_error by the dispatcher, the no-executor error, the unregister sweep),
\* and none holds both a result and an error.
C2_AtMostOneCompletion ==
    \A i \in 1 .. Len(calls) :
        /\ calls[i].nset <= 1
        /\ ~(calls[i].result # PyNone /\ calls[i].error # PyNone)

\* C2 witness: one call was completed by the dispatcher and another by the
\* unregister sweep.
C2_Witness ==
    \E i, j \in 1 .. Len(calls) :
        /\ calls[i].setby = "dispatcher" /\ calls[i].nset = 1 /\ calls[i].event
        /\ calls[j].setby = "unregister" /\ calls[j].nset = 1 /\ calls[j].event

\* C3 (as claimed): of the set_result and set_error calls applied to one
\* PendingCall only the first takes effect; every later call leaves the result
\* and error slots as the first left them.  Checked under SpecPendingCall.
C3_FirstCompletionWins ==
    \A i \in 1 .. Len(calls) : calls[i].nset >= 1 => Slots(calls[i]) = snap

\* C4 (as claimed): once unregister has returned on a registered bridge, the
\* table is empty and stays empty until the bridge is registered again.
C4_EmptyAfterUnregister ==
    (app /\ ~custom_event /\ hpc = "idle") => pending = << >>

\* the step that ends unregister's sweep: the clear and the lock's release
C5_SweepStep ==
    (hpc = "sweep" /\ hpc' = "idle") =>
        /\ pending' = << >>
        /\ \A i \in Values(pending) :
            /\ calls'[i].error = ShutdownError
            /\ calls'[i].result = PyNone
            /\ calls'[i].event
            /\ calls'[i].nset = 1

\* what execute_tool returned to a waiter that the sweep woke
C5_WaiterSeesShutdown ==
    \A w \in Workers :
        (/\ wpc[w] = "idle" /\ wcall[w] # 0
         /\ calls[wcall[w]].waiter = "signaled"
         /\ calls[wcall[w]].setby = "unregister")
        => wret[w] = Envelope(<<"Error: ", "Bridge shutting down">>, TRUE)

\* C5: the unregister sweep completes every call it finds in the table with
\* "Bridge shutting down" (each had no completion before), sets its event, and
\* leaves the table empty when it ends; a waiter woken by the sweep gets the
\* error-flagged envelope with that message from execute_tool.
C5_UnregisterDrains == [][C5_SweepStep]_vars /\ []C5_WaiterSeesShutdown

\* C5 witness: unregister has ended after sweeping two calls, and the waiter
\* of one of them has returned the shutdown error.
C5_Witness ==
    /\ hpc = "idle" /\ pending = << >>
    /\ Cardinality({i \in 1 .. Len(calls) : calls[i].rmby = "unregister"}) >= 2
    /\ \E w \in Workers :
        /\ wpc[w] = "idle" /\ wcall[w] # 0
        /\ calls[wcall[w]].waiter = "signaled"
        /\ calls[wcall[w]].setby = "unregister"
        /\ wret[w].isError

\* a worker's step from wait straight to the return
C6_TimeoutStep ==
    \A w \in Workers :
        (wpc[w] = "wait" /\ wpc'[w] = "idle") =>
            /\ wret'[w] = Envelope(<<"Tool execution timed out: ", wtool[w]>>, TRUE)
            /\ pending' = pending
            /\ CallData(calls') = CallData(calls)
            /\ hostVars' = hostVars
            /\ queue' = queue
            /\ lock' = lock

\* C6: the step by which a waiter leaves wait without a signal returns the
\* envelope "Tool execution timed out: <name>" with isError, and changes
\* neither the table nor any PendingCall's slots or event, nor the host
\* thread's state, the signal queue or the lock.
C6_TimeoutLeavesBridgeAlone == [][C6_TimeoutStep]_vars

\* C6 witness: a waiter timed out while the host was inside the tool
\* invocation of that very call, which is still in the table.
C6_Witness ==
    \E w \in Workers :
        /\ wpc[w] = "idle" /\ wcall[w] # 0
        /\ calls[wcall[w]].waiter = "timedout"
        /\ wret[w] = TimedOut(wtool[w])
        /\ hpc = "ear_exec" /\ hcall = wcall[w]
        /\ InTable(wcall[w])

\* C7: no entry is removed from the table more than once, and never by a
\* worker; once the dispatcher has finished with a call whose submitter had
\* timed out, the call is absent from the table (a lookup of its id gives
\* None), removed once by the completion path, and its submitter has returned
\* the timed-out envelope, not an exception.
C7_LateCompletionRemoves ==
    \A i \in 1 .. Len(calls) :
        /\ calls[i].nremoved <= 1
        /\ calls[i].rmby \in {"nobody", "completion", "unregister"}
        /\ (/\ calls[i].waiter = "timedout"
            /\ calls[i].setby \in {"dispatcher", "no_executor"}
            /\ calls[i].event
            /\ ~HostBusyWith(i))
           => /\ Lookup(pending, calls[i].call_id) = 0
              /\ calls[i].nremoved = 1
              /\ calls[i].rmby = "completion"
              /\ (hpc = "idle" => ~hexc)
              /\ \A w \in Workers :
                    (wcall[w] = i /\ wpc[w] = "idle") => wret[w] = TimedOut(wtool[w])

\* C7 witness: a call whose submitter timed out was later completed with a
\* result by the dispatcher, which has finished and removed it.
C7_Witness ==
    \E i \in 1 .. Len(calls) :
        /\ calls[i].waiter = "timedout"
        /\ calls[i].setby = "dispatcher" /\ calls[i].result # PyNone
        /\ ~HostBusyWith(i) /\ hpc = "idle"
        /\ calls[i].nremoved = 1

\* the last step of execute_and_respond for a call it ran the executor for
C8_ExitStep ==
    (hpc = "rm_pop" /\ hpc' = "idle" /\ calls[hcall].nexec > 0) =>
        /\ IF hres.raises
           THEN calls'[hcall].error = hres.value /\ calls'[hcall].result = PyNone
           ELSE calls'[hcall].result = hres.value /\ calls'[hcall].error = PyNone
        /\ calls'[hcall].event
        /\ ~hexc'
        /\ Lookup(pending', hpay.call_id) = 0
        /\ ~InTable(hcall)'

\* C8: when execute_and_respond exits after having found its call in the
\* table, the call holds set_result(value) if the executor function returned
\* value, and set_error(str(e)) if it raised e; the event is set, no exception
\* is propagating, and the call's id is absent from the table.
C8_ExecuteAndRespond == [][C8_ExitStep]_vars

\* C8 witness: execute_and_respond has exited for a call whose executor
\* function raised Exception("boom").
C8_Witness ==
    \E i \in 1 .. Len(calls) :
        /\ calls[i].nexec = 1
        /\ calls[i].error = PyStr("boom")
        /\ calls[i].setby = "dispatcher" /\ calls[i].event
        /\ hpc = "idle"
        /\ ~InTable(i)

\* the host's step out of the lookup of an id the table does not hold
C9_AbsentStep ==
    (hpc = "ear_get" /\ hpc' # hpc /\ Lookup(pending, hpay.call_id) = 0) =>
        /\ hpc' = "idle"
        /\ pending' = pending
        /\ calls' = calls

\* C9: when execute_and_respond looks up a call id that is not in the table,
\* the host thread's next step is the return: the executor function is not
\* invoked, and the table and every PendingCall stay as they were.
C9_AbsentCallIsNoOp == [][C9_AbsentStep]_vars

\* C9 witness: execute_and_respond is looking up the id of a call that was
\* already removed from the table.
C9_Witness ==
    /\ hpc = "ear_get"
    /\ Lookup(pending, hpay.call_id) = 0
    /\ hpay.call_id \in 1 .. Len(calls)
    /\ calls[hpay.call_id].nremoved = 1

\* C10: a call the dispatcher handled with no executor configured holds the
\* error "No executor configured" and no result; when notify is through with
\* it, its event is set and it is out of the table; a waiter that was
\* signalled returns the error-flagged envelope with that message.
C10_NoExecutorFailsFast ==
    \A i \in 1 .. Len(calls) :
        calls[i].setby = "no_executor" =>
            /\ calls[i].error = PyStr("No executor configured")
            /\ calls[i].result = PyNone
            /\ ~HostBusyWith(i) => (calls[i].event /\ ~InTable(i))
            /\ \A w \in Workers :
                (wcall[w] = i /\ wpc[w] = "idle" /\ calls[i].waiter = "signaled")
                => wret[w] = Envelope(<<"Error: ", "No executor configured">>, TRUE)

\* C10 witness: a waiter has returned the no-executor error.
C10_Witness ==
    \E w \in Workers :
        /\ wpc[w] = "idle" /\ wcall[w] # 0
        /\ calls[wcall[w]].setby = "no_executor"
        /\ calls[wcall[w]].waiter = "signaled"
        /\ wret[w].isError
        /\ ~InTable(wcall[w])

\* C11: whenever notify is not running (the host thread is back in the host's
\* event delivery) no exception is propagating: the exception raised by a
\* payload that is not JSON or lacks a key, and the one raised by the
\* executor function, were caught inside notify; and the step out of notify's
\* except clause is a plain return.
C11_NotifyNeverRaises ==
    /\ hpc = "idle" => ~hexc
    /\ hpc = "except" => hexc

\* C11 witness: notify has caught the KeyError of a payload without call_id
\* while an earlier call's executor exception had been stored as its error.
C11_Witness ==
    /\ hpc = "except" /\ hexc /\ hpay = MissingKeys
    /\ \E i \in 1 .. Len(calls) :
        calls[i].setby = "dispatcher" /\ calls[i].error # PyNone /\ ~InTable(i)

\* C12 (as claimed): no call of execute_tool ends with an exception: whatever
\* a worker's execute_tool ended with is a value, never a raise, also on a
\* bridge that was never registered.
C12_ExecuteToolNeverRaises ==
    \A w \in Workers : wret[w].tag # "raised"

\* C13 (as claimed): a waiter that was signalled for a call completed through
\* set_error (error slot not None, the empty message included) gets from
\* execute_tool the error-flagged envelope "Error: <message>", never
\* call.result.
C13_ErrorAlwaysFlagged ==
    \A w \in Workers :
        (/\ wpc[w] = "idle" /\ wcall[w] # 0
         /\ calls[wcall[w]].waiter = "signaled"
         /\ calls[wcall[w]].error # PyNone)
        => /\ wret[w] = ErrorResult(calls[wcall[w]].error)
           /\ wret[w].isError

\* the dispatcher's write of a returned value, and the slot's fate afterwards
C14_StoreStep ==
    /\ (hpc = "ear_result" /\ hpc' # hpc) =>
            /\ calls'[hcall].result = hres.value
            /\ calls'[hcall].error = calls[hcall].error
    /\ \A i \in 1 .. Len(calls) :
            (calls[i].setby = "dispatcher" /\ calls[i].error = PyNone)
            => calls'[i].result = calls[i].result

\* what execute_tool returned to a waiter signalled by a dispatcher's set_result
C14_WaiterGetsValue ==
    \A w \in Workers :
        (/\ wpc[w] = "idle" /\ wcall[w] # 0
         /\ calls[wcall[w]].waiter = "signaled"
         /\ calls[wcall[w]].setby = "dispatcher"
         /\ calls[wcall[w]].error = PyNone)
        => /\ wret[w] = calls[wcall[w]].result
           /\ wret[w] \in ReturnValues

\* C14: the value v the executor function returned for a call is what the
\* dispatcher stores in the result slot, the slot keeps it, and a waiter
\* signalled by that completion gets exactly v from execute_tool, with its
\* text and its isError flag as they were, also when the dispatcher ran
\* before the submitter began to wait.
C14_RoundTrip == [][C14_StoreStep]_vars /\ []C14_WaiterGetsValue

\* C14 witness: a waiter got back the error-flagged envelope the executor
\* function had returned, for a call the dispatcher ran on a foreign delivery
\* (nothing of the call's own signal has been delivered: it is still queued).
C14_Witness ==
    \E w \in Workers :
        /\ wpc[w] = "idle" /\ wcall[w] # 0
        /\ calls[wcall[w]].waiter = "signaled"
        /\ calls[wcall[w]].setby = "dispatcher"
        /\ wret[w] = Envelope(<<"Error in ", "echo", ": ", "boom">>, TRUE)
        /\ \E k \in 1 .. Len(queue) : queue[k].call_id = calls[wcall[w]].call_id

\* a step in which some execute_tool call ended at the registry check
C15_UnknownStep ==
    shorts' # shorts =>
        /\ calls' = calls
        /\ pending' = pending
        /\ queue' = queue
        /\ lock' = lock
        /\ hostVars' = hostVars
        /\ bridgeVars' = bridgeVars
        /\ \E w \in Workers :
            /\ wpc[w] = "idle" /\ wpc'[w] = "idle"
            /\ wtool'[w] \notin RegisteredTools
            /\ wret'[w] = Envelope(<<"Unknown tool: ", wtool'[w]>>, TRUE)
            /\ wcall'[w] = 0
            /\ \A v \in Workers \ {w} :
                wpc'[v] = wpc[v] /\ wret'[v] = wret[v] /\ wcall'[v] = wcall[v]

\* C15: execute_tool with a name the registry does not know returns the
\* error-flagged envelope "Unknown tool: <name>" in the same step, and that
\* step changes no PendingCall, not the table, the signal queue, the lock,
\* the registration or the host thread; no PendingCall ever exists for a
\* name the registry does not know, in the table or outside it, and no
\* signal carries such a name.
C15_UnknownToolLeavesBridge ==
    /\ [][C15_UnknownStep]_vars
    /\ [](\A i \in 1 .. Len(calls) : calls[i].tool_name \in RegisteredTools)
    /\ [](\A k \in 1 .. Len(queue) : queue[k].tool_name \in RegisteredTools)

\* C15 witness: a worker got "Unknown tool" back while another call sits in
\* the table with its signal queued.
C15_Witness ==
    \E w \in Workers :
        /\ wpc[w] = "idle" /\ wcall[w] = 0
        /\ wret[w] = UnknownTool("does_not_exist")
        /\ shorts = 1
        /\ pending # << >> /\ queue # << >>

\* a step of direct mode and what it leaves alone
C16_DirectStep ==
    /\ calls' = calls /\ pending' = pending /\ queue' = queue /\ lock' = lock
    /\ hostVars' = hostVars
    /\ \A w \in Workers :
        /\ wpc'[w] \in {"idle", "call_tool"}
        /\ (wpc[w] = "call_tool" /\ wpc'[w] = "idle") =>
            /\ w \in invoked'
            /\ \E o \in HandlerOutcomes :
                /\ wret'[w] = call_tool(wtool[w], o)
                /\ o.raises =>
                    wret'[w] = Envelope(<<"Error in ", wtool[w], ": ">> \o o.value.text, TRUE)

\* what direct-mode execute_tool has returned
C16_DirectReturns ==
    /\ calls = << >> /\ pending = << >> /\ queue = << >>
    /\ Host \notin invoked
    /\ \A w \in Workers :
        /\ wret[w].tag \in {"noreturn", "envelope"}
        /\ wret[w] # TimedOut(wtool[w])
        /\ (wpc[w] = "idle" /\ wtool[w] \in RegisteredTools) =>
            (w \in invoked /\ \E o \in HandlerOutcomes : wret[w] = call_tool(wtool[w], o))

\* C16: in direct mode execute_tool for a registered tool runs the handler
\* in the calling worker thread and returns what registry.call_tool makes of
\* the handler's outcome; a handler that raises gives the error-flagged
\* envelope "Error in <name>: <message>", never a raise; no PendingCall is
\* created, nothing enters the table or the signal queue, the lock is not
\* taken, no worker waits and none gets the timed-out envelope.  Checked
\* under SpecDirect.
C16_DirectMode == [][C16_DirectStep]_vars /\ []C16_DirectReturns

\* C16 witness: one worker's handler raised with an empty message and it got
\* the error envelope, while the other worker is inside its handler.
C16_Witness ==
    \E w, v \in Workers :
        /\ wpc[w] = "idle" /\ w \in invoked
        /\ wret[w] = Envelope(<<"Error in ", "echo", ": ", "">>, TRUE)
        /\ wpc[v] = "call_tool"

\* the positions at which a thread is inside a with self._lock block
HostInLock == hpc \in {"ear_get", "ne_get", "rm_pop", "sweep", "sweep_event"}
WorkerInLock(w) == wpc[w] = "submit_insert"

\* a step that changes the table or reads it is taken by the lock's holder
C17_TableStep ==
    /\ pending' # pending =>
        /\ lock # Free
        /\ IF lock = Host THEN hpc' # hpc ELSE wpc'[lock] # wpc[lock]
    /\ (hcall' # hcall /\ hcall' # 0) => (lock = Host /\ hpc \in {"ear_get", "ne_get"})

\* who holds the lock, and that the executor function runs without it
C17_LockHeldOnlyForTable ==
    /\ lock = Host <=> HostInLock
    /\ \A w \in Workers : lock = w <=> WorkerInLock(w)
    /\ hpc \in {"ear_exec", "ear_result", "ear_error", "ear_event"} =>
        /\ lock # Host
        /\ \A w \in Workers :
            /\ (wpc[w] = "submit_lock" /\ lock = Free) => ENABLED SubmitAcquire(w)
            /\ lock = w => ENABLED SubmitInsert(w)

\* C17: every step that inserts into, removes from or clears the table, and
\* every lookup, is taken by the thread that holds the lock; the host holds
\* the lock exactly inside get_pending_call, remove_pending_call and the
\* unregister sweep and a worker exactly inside submit_call's insert; while
\* the host is in the executor function or in set_result / set_error it does
\* not hold the lock, so a worker waiting for the free lock can take it and
\* a worker holding it can insert.
C17_LockDiscipline == [][C17_TableStep]_vars /\ []C17_LockHeldOnlyForTable

\* C17 witness: a worker holds the lock for its insert while the host is
\* inside the executor function for another call.
C17_Witness ==
    \E w \in Workers :
        /\ hpc = "ear_exec"
        /\ lock = w /\ wpc[w] = "submit_insert"
        /\ hcall # wcall[w]

\* the positions at which a thread is blocked in the lock's acquire
HostWaitsLock == hpc \in {"ear_lock", "ne_lock", "rm_lock", "sweep_lock"}
WorkerWaitsLock(w) == wpc[w] = "submit_lock"

\* what a thread can be held up by
C18_OnlyTheLockBlocks ==
    /\ HostWaitsLock => lock # Host
    /\ (HostWaitsLock /\ lock = Free) => ENABLED HostThread
    /\ (hpc # "idle" /\ ~HostWaitsLock) => ENABLED HostThread
    /\ \A w \in Workers :
        /\ WorkerWaitsLock(w) => lock # w
        /\ (WorkerWaitsLock(w) /\ lock = Free) => ENABLED Worker(w)
        /\ WorkerInLock(w) => ENABLED SubmitInsert(w)
        /\ (wpc[w] # "idle" /\ ~WorkerWaitsLock(w)) => ENABLED Worker(w)

\* C18: the host thread inside notify or unregister can always take its
\* next step unless it is asking for the lock while another thread holds it
\* (it never waits for a worker's progress, an event or a lock it holds
\* itself); whoever holds the lock gives it up; and a host thread or worker
\* that asks for the lock gets it.  Checked under FairSpec.
C18_DeadlockFree ==
    /\ []C18_OnlyTheLockBlocks
    /\ (lock # Free) ~> (lock = Free)
    /\ HostWaitsLock ~> HostInLock
    /\ \A w \in Workers : WorkerWaitsLock(w) ~> WorkerInLock(w)

\* C18 witness: the host asks for the lock while one worker holds it and the
\* other asks for it too.
C18_Witness ==
    \E w, v \in Workers :
        /\ HostWaitsLock
        /\ lock = w /\ WorkerInLock(w)
        /\ WorkerWaitsLock(v)

\* the signal submit_call raises for the call of worker w
OwnPayload(w) ==
    Payload(calls[wcall[w]].call_id, calls[wcall[w]].tool_name, calls[wcall[w]].arguments)

\* the steps of a call's lifecycle
C19_LifecycleStep ==
    \* a signal is raised only by submit_call's hand-off, for its own call,
    \* which is then marked as handed off, once and for all
    /\ (queue' # queue /\ Len(queue') >= Len(queue)) =>
        \E w \in Workers :
            /\ wpc[w] = "submit_fire" /\ wpc'[w] = "wait"
            /\ queue' = Append(queue, OwnPayload(w))
            /\ calls[wcall[w]].waiter = "none" /\ calls'[wcall[w]].waiter = "waiting"
    /\ \A w \in Workers :
        (wpc[w] = "submit_fire" /\ wpc'[w] = "wait" /\ custom_event)
        => queue' = Append(queue, OwnPayload(w))
    /\ \A i \in 1 .. Len(calls) :
        /\ calls'[i].waiter = "none" => calls[i].waiter = "none"
        \* the invocation starts on a call that is in the table and not completed
        /\ calls'[i].nexec # calls[i].nexec =>
            (InTable(i) /\ calls[i].nset = 0 /\ calls[i].nexec = 0)

\* the order of insert, signal, invocation and completion
C19_LifecycleOrder ==
    /\ \A k \in 1 .. Len(queue) :
        /\ queue[k].fired_by = "submit_call"
        /\ queue[k].call_id \in 1 .. Len(calls)
        /\ InTable(queue[k].call_id) \/ calls[queue[k].call_id].nremoved >= 1
        /\ calls[queue[k].call_id].waiter # "none"
        /\ \A j \in 1 .. Len(queue) : queue[j].call_id = queue[k].call_id => j = k
    /\ \A i \in 1 .. Len(calls) :
        /\ calls[i].nexec >= 1 => (InTable(i) \/ calls[i].nremoved >= 1)
        /\ (hpc = "ear_exec" /\ hcall = i) => calls[i].nset = 0
        /\ calls[i].setby = "dispatcher" =>
            (calls[i].nexec = 1 /\ ~(hpc = "ear_exec" /\ hcall = i))
    /\ (hpc \in {"ear_get", "ne_get"} /\ hpay.fired_by = "submit_call") =>
        \/ Lookup(pending, hpay.call_id) # 0
        \/ calls[hpay.call_id].rmby = "unregister"
        \/ /\ calls[hpay.call_id].rmby = "completion"
           /\ calls[hpay.call_id].nexec = 1 \/ calls[hpay.call_id].setby = "no_executor"

C20_InvocationStep ==
    (invoked' # invoked \/ \E i \in 1 .. Len(calls) : calls'[i].nexec # calls[i].nexec) =>
        /\ hpc = "ear_exec" /\ hpc' \in {"ear_result", "ear_error"}
        /\ hpay.wellformed
        /\ workerVars' = workerVars
        /\ invoked' = invoked \cup {Host}

\* C20: with a bridge configured, every tool invocation is a step of the
\* host thread inside execute_and_respond, reached from notify on a
\* delivered payload; no step of a worker, in execute_tool or in submit_call,
\* makes one, and the threads that have made one are the host thread alone.
C20_ToolsRunOnHostThread ==
    /\ [][C20_InvocationStep]_vars
    /\ [](invoked \subseteq {Host})

\* C20 witness: a worker has got back the value of a tool the host thread ran
\* for it, while another worker is inside submit_call.
C20_Witness ==
    \E w, v \in Workers :
        /\ invoked = {Host}
        /\ wpc[w] = "idle" /\ wcall[w] # 0
        /\ calls[wcall[w]].nexec = 1
        /\ wret[w] \in ReturnValues
        /\ wpc[v] \in {"submit_lock", "submit_insert", "submit_fire"}

\* the host's step out of a lookup that found the call
C21_FoundStep ==
    (hpc = "ear_get" /\ hpc' # hpc /\ Lookup(pending, hpay.call_id) # 0) =>
        /\ hpc' = "ear_exec"
        /\ hcall' = Lookup(pending, hpay.call_id)

\* where a timed-out call is while its signal is still to be delivered
C21_TimedOutStaysInTable ==
    /\ \A k \in 1 .. Len(queue) :
        (calls[queue[k].call_id].waiter = "timedout" /\ calls[queue[k].call_id].nremoved = 0)
        => InTable(queue[k].call_id)
    /\ \A i \in 1 .. Len(calls) :
        (calls[i].waiter = "timedout" /\ ~InTable(i)) => calls[i].rmby \in {"completion", "unregister"}
    /\ hpc = "ear_exec" => (hcall # 0 /\ ENABLED (\E o \in Outcomes : EarExec(o)))

\* C21: a call whose submitter timed out is still in the table until the
\* host's completion path or the unregister sweep removes it; when its signal
\* is delivered later, the dispatcher's lookup finds it and the next thing
\* the host does is run the executor function for it, whatever the waiter
\* did.
C21_TimeoutIsCooperative == [][C21_FoundStep]_vars /\ []C21_TimedOutStaysInTable

\* C21 witness: the host is inside the executor function, on the call's own
\* signal, for a call whose submitter had timed out before the signal was
\* delivered and has returned the timed-out envelope.
C21_Witness ==
    \E w \in Workers :
        /\ hpc = "ear_exec" /\ hpay.fired_by = "submit_call"
        /\ hcall = wcall[w] /\ wpc[w] = "idle"
        /\ calls[hcall].waiter = "timedout" /\ calls[hcall].nexec = 0
        /\ wret[w] = TimedOut(wtool[w])

\* a waiter's step out of wait
C22_WaitStep ==
    \A w \in Workers :
        /\ (wpc[w] = "wait" /\ wpc'[w] = "read") =>
            /\ calls[wcall[w]].event /\ calls[wcall[w]].nset >= 1
            /\ calls[wcall[w]].result # PyNone \/ calls[wcall[w]].error # PyNone
        /\ (wpc[w] = "wait" /\ wpc'[w] = "idle") => ~calls[wcall[w]].event

\* what a waiter can do when the completion is already there
C22_NoLostWakeup ==
    \A w \in Workers :
        /\ (wpc[w] = "wait" /\ calls[wcall[w]].event) =>
            (ENABLED WaitSignaled(w) /\ ~ENABLED WaitTimeout(w))
        /\ (wpc[w] = "wait" /\ ~calls[wcall[w]].event) => ~ENABLED WaitSignaled(w)
        /\ (wcall[w] # 0 /\ calls[wcall[w]].waiter = "signaled") => calls[wcall[w]].event

\* C22: wait returns True only for a call whose set_result or set_error has
\* set the event, and False only while the event is not set; a waiter whose
\* call is already completed, also when the completion came before it began
\* to wait, can only return True: it cannot run into the timeout.
C22_WaitReturnsCompletion == [][C22_WaitStep]_vars /\ []C22_NoLostWakeup

\* C22 witness: a wait returned True for a call that a delivery completed
\* while the call's own signal had not been delivered: it is still queued.
C22_Witness ==
    \E w \in Workers :
        /\ wpc[w] = "read"
        /\ calls[wcall[w]].waiter = "signaled"
        /\ hpc = "idle" /\ ~InTable(wcall[w])
        /\ \E k \in 1 .. Len(queue) : queue[k].call_id = calls[wcall[w]].call_id

\* the returning step of a remove_pending_call
C23_RemoveStep ==
    \A w \in Workers :
        (wpc[w] = "rm_pop" /\ wpc'[w] = "idle") =>
            /\ wret'[w] = PyNone
            /\ Lookup(pending', wcall[w]) = 0
            /\ pending' = SelectSeq(pending, LAMBDA c : c # wcall[w])
            /\ \A i \in 1 .. Len(calls) : i # wcall[w] => calls'[i] = calls[i]
            /\ lock = w /\ lock' = Free

\* what remove_pending_call calls have left behind
C23_RemovedOnce ==
    /\ \A w \in Workers :
        /\ wret[w].tag # "raised"
        /\ (wpc[w] = "idle" /\ wcall[w] # 0) => ~InTable(wcall[w])
    /\ \A i \in 1 .. Len(calls) :
        /\ calls[i].nremoved <= 1
        /\ InTable(i) <=> calls[i].nremoved = 0
        /\ calls[i].call_id = i

\* C23: every remove_pending_call returns None and raises nothing, whether
\* the id is in the table or not; after it the id is absent, and every other
\* entry is in the table as before, in the same order, its PendingCall
\* untouched; an entry leaves the table once however many calls, one after
\* another or at the same time, name its id.  Checked under SpecRemove.
C23_RemoveIsIdempotent == [][C23_RemoveStep]_vars /\ []C23_RemovedOnce

\* C23 witness: two threads have both returned from remove_pending_call for
\* the same id, which left the table once, and another entry is still there.
C23_Witness ==
    \E w, v \in Workers :
        /\ w # v /\ wcall[w] = wcall[v] /\ wcall[w] # 0
        /\ wpc[w] = "idle" /\ wpc[v] = "idle"
        /\ wret[w] = PyNone /\ wret[v] = PyNone
        /\ calls[wcall[w]].nremoved = 1
        /\ pending # << >>

\* the steps of unregister
C24_UnregisterStep ==
    \* the signal is deregistered only by an unregister that found it registered
    /\ (custom_event /\ ~custom_event') =>
        (app /\ hpc = "idle" /\ hpc' = "sweep_lock" /\ ~handler' /\ ~executor_fn' /\ app')
    \* an unregister that finds nothing registered changes no field
    /\ (hpc = "idle" /\ hpc' = "sweep_lock" /\ ~(app /\ custom_event)) =>
        (bridgeVars' = bridgeVars /\ pending' = pending /\ calls' = calls)
    \* and its sweep of an empty table leaves it empty
    /\ (hpc = "sweep" /\ hpc' = "idle" /\ pending = << >>) =>
        (pending' = << >> /\ calls' = calls /\ bridgeVars' = bridgeVars /\ ~hexc')

\* unregister raises nothing and always gets to its sweep
C24_UnregisterNeverRaises ==
    /\ hexc => hpc \in {"ear_error", "except"}
    /\ hpc = "idle" => ENABLED Unregister
    /\ hpc \in {"sweep_lock", "sweep", "sweep_event"} => (~custom_event /\ ~handler /\ ~executor_fn)

\* C24: unregister can be called in every state the host thread is idle in,
\* registered, never registered or already unregistered, and raises in
\* none; it deregisters the signal only when it finds the bridge registered,
\* so once per registration; called on a bridge with no signal object it
\* changes no field, and with the table empty its sweep changes nothing.
C24_UnregisterIsIdempotent == [][C24_UnregisterStep]_vars /\ []C24_UnregisterNeverRaises

\* C24 witness: a second unregister is in its sweep, on the empty table the
\* first one left after sweeping a call.
C24_Witness ==
    /\ hpc = "sweep" /\ app /\ ~custom_event
    /\ pending = << >>
    /\ \E i \in 1 .. Len(calls) : calls[i].rmby = "unregister"

\* C25: every entry of the table is a PendingCall that exists, looking up
\* the call_id of an entry gives that very entry (the key an entry sits under
\* is its own call_id), no two entries of the table have the same call_id,
\* and no PendingCall has the call_id of another one that is in the table.
C25_TableIdentity ==
    /\ \A k \in 1 .. Len(pending) :
        /\ pending[k] \in 1 .. Len(calls)
        /\ Lookup(pending, calls[pending[k]].call_id) = pending[k]
        /\ \A j \in 1 .. Len(pending) :
            calls[pending[j]].call_id = calls[pending[k]].call_id => j = k
    /\ \A i, j \in 1 .. Len(calls) :
        (i # j /\ calls[i].call_id = calls[j].call_id) => (~InTable(i) /\ ~InTable(j))

\* C25 witness: two calls are in the table at the same time and a lookup on
\* the host found the one inserted last.
C25_Witness ==
    /\ Len(pending) = 2
    /\ calls[pending[1]].call_id # calls[pending[2]].call_id
    /\ hpc = "ear_exec" /\ hcall = pending[2]

\* what direct-mode execute_tool returns for a registered tool whose handler
\* does h (DirectCallTool)
DirectReturn(name, h) == call_tool(name, h)

\* the dispatcher's store of what direct_execute returned
C26_WiredStep ==
    (hpc = "ear_result" /\ hpc' # hpc) =>
        /\ \E h \in HandlerOutcomes : calls'[hcall].result = DirectReturn(hpay.tool_name, h)
        /\ calls'[hcall].error = PyNone

\* what a waiter signalled by the dispatcher got
C26_SameEnvelope ==
    /\ hpc # "ear_error"
    /\ \A i \in 1 .. Len(calls) : calls[i].setby = "dispatcher" => calls[i].error = PyNone
    /\ \A w \in Workers :
        (/\ wpc[w] = "idle" /\ wcall[w] # 0
         /\ calls[wcall[w]].waiter = "signaled"
         /\ calls[wcall[w]].setby = "dispatcher")
        => /\ wret[w] = calls[wcall[w]].result
           /\ \E h \in HandlerOutcomes : wret[w] = DirectReturn(wtool[w], h)

\* C26: with direct_execute as the executor function the dispatcher never
\* takes its except branch; it stores through set_result the envelope
\* call_tool made of the handler's outcome, which is the envelope direct-mode
\* execute_tool returns for that outcome, and a waiter it signals gets that
\* envelope unchanged, the error-flagged "Error in <name>: <message>" of a
\* raising handler included.  Checked under SpecWired.
C26_BridgedAgreesWithDirect == [][C26_WiredStep]_vars /\ []C26_SameEnvelope

\* C26 witness: a waiter got the error-flagged envelope of a handler that
\* raised, through the result slot; the error slot is None.
C26_Witness ==
    \E w \in Workers :
        /\ wpc[w] = "idle" /\ wcall[w] # 0
        /\ calls[wcall[w]].waiter = "signaled"
        /\ calls[wcall[w]].setby = "dispatcher"
        /\ calls[wcall[w]].error = PyNone
        /\ wret[w] = DirectReturn("echo", [raises |-> TRUE, value |-> PyStr("boom")])
        /\ wret[w].isError

\* C27 (as claimed): whenever no worker is inside execute_tool, the host
\* thread is idle and no signal is waiting to be delivered, the table is
\* empty.
C27_NoOrphanAtQuiescence ==
    ((\A w \in Workers : wpc[w] = "idle") /\ hpc = "idle" /\ queue = << >>)
    => pending = << >>

\* C28 (as claimed): a submit_call that ended with an exception has left no
\* entry for its PendingCall in the table.
C28_FailedSubmitLeavesNoEntry ==
    \A w \in Workers :
        (wpc[w] = "idle" /\ wret[w].tag = "raised" /\ wcall[w] # 0) => ~InTable(wcall[w])

\* C29: the executor function has run at most once for every PendingCall,
\* and only the host thread has run it; a call it has run for is out of the
\* table once execute_and_respond is through with it, so a payload that
\* carries its id again finds nothing to run.
C29_AtMostOnceExecution ==
    /\ \A i \in 1 .. Len(calls) :
        /\ calls[i].nexec <= 1
        /\ (calls[i].nexec = 1 /\ ~HostBusyWith(i)) => ~InTable(i)
    /\ (hpc = "ear_get" /\ Lookup(pending, hpay.call_id) # 0)
        => calls[Lookup(pending, hpay.call_id)].nexec = 0
    /\ hpc = "ear_exec" => calls[hcall].nexec = 0
    /\ invoked \subseteq {Host}

\* C29 witness: the dispatcher is looking up, for a payload delivered again,
\* the id of a call the executor function has already run for.
C29_Witness ==
    /\ hpc = "ear_get"
    /\ hpay.call_id \in 1 .. Len(calls)
    /\ calls[hpay.call_id].nexec = 1
    /\ calls[hpay.call_id].setby = "dispatcher"
    /\ Lookup(pending, hpay.call_id) = 0

\* a PendingCall that holds neither a result nor an error
Empty(call) == call.result = PyNone /\ call.error = PyNone

\* once the event is set the slots stay as they are
C30_SlotsSettled ==
    \A i \in 1 .. Len(calls) :
        calls[i].event =>
            (calls'[i].result = calls[i].result /\ calls'[i].error = calls[i].error
             /\ calls'[i].event)

\* the event is never set on an empty PendingCall
C30_WrittenBeforeSignalled ==
    /\ \A i \in 1 .. Len(calls) :
        /\ calls[i].event => (calls[i].nset >= 1 /\ ~Empty(calls[i]))
        /\ calls[i].waiter = "signaled" => (calls[i].event /\ ~Empty(calls[i]))
    /\ \A w \in Workers :
        /\ wpc[w] = "read" => ~Empty(calls[wcall[w]])
        /\ (wpc[w] = "idle" /\ wcall[w] # 0 /\ calls[wcall[w]].waiter = "signaled")
            => wret[w] = BridgeResult(calls[wcall[w]])

\* C30: every completer (dispatcher, no-executor branch, unregister sweep)
\* assigns the slot in one step and sets the event in a later one; a
\* PendingCall whose event is set holds a result or an error and keeps both
\* slots from then on; so a waiter whose wait returned True reads slots that
\* are not empty, and what execute_tool returns is made of the slots as the
\* completion left them.
C30_WriteBeforeSignal == [][C30_SlotsSettled]_vars /\ []C30_WrittenBeforeSignalled

\* C30 witness: one waiter is reading the slots after a signalled wait while
\* the host has assigned the slot of another call and not yet set its event,
\* with that call's submitter still waiting.
C30_Witness ==
    \E w, v \in Workers :
        /\ wpc[w] = "read" /\ ~Empty(calls[wcall[w]])
        /\ wpc[v] = "wait" /\ hcall = wcall[v]
        /\ hpc = "ear_event"
        /\ ~calls[hcall].event /\ ~Empty(calls[hcall])

\* ------------------------------------------------------- the SSE transport
\* SSEManager and its SSEConnections (mcp/sse_handler.py) used by the HTTP
\* server's threads (mcp/server.py): a GET /sse thread constructs a
\* connection, adds it, sends the endpoint event and then pings it; a POST
\* thread delivers a response with send_to_session; shutdown_server calls
\* cleanup.  Any thread may start any operation on any connection or session
\* id.  A connection built without a session id gets a fresh uuid4, so the
\* connection's number stands for its session id too.

\* dict.get(session_id): the connection, 0 for None
Get(d, sid) == IF \E k \in 1 .. Len(d) : d[k] = sid THEN sid ELSE 0
\* dict.pop(session_id, None): the table without the key
Discard(d, sid) == SelectSeq(d, LAMBDA x : x # sid)
\* self._connections[connection.session_id] = connection
Put(d, sid) == IF Get(d, sid) # 0 THEN d ELSE Append(d, sid)

\* the call conn.send_event(data, event=...): the frame gets the next number
CallSendEvent(t, c, op) ==
    /\ nframes' = nframes + 1
    /\ tpc' = [tpc EXCEPT ![t] = "se_check"]
    /\ tloc' = [tloc EXCEPT ![t].op = op, ![t].conn = c, ![t].frame = nframes + 1,
                            ![t].ret = "none", ![t].excepted = FALSE]

\* send_event returns val: to broadcast's loop (if not conn.send_event:
\* dead.append(sid)), or through send_to_session to the caller
ReturnFromSendEvent(t, val, excepted) ==
    IF tloc[t].op = "broadcast"
    THEN /\ tpc' = [tpc EXCEPT ![t] = "bc_loop"]
         /\ tloc' = [tloc EXCEPT ![t].idx = @ + 1, ![t].conn = 0, ![t].frame = 0,
                                 ![t].dead = IF val THEN @ ELSE Append(@, tloc[t].conn)]
    ELSE /\ tpc' = [tpc EXCEPT ![t] = "idle"]
         /\ tloc' = [tloc EXCEPT ![t] = [NoLocals EXCEPT !.ret = IF val THEN "True" ELSE "False",
                                                         !.excepted = excepted]]

\* a thread that holds the connection calls conn.send_event itself:
\* _handle_sse's endpoint event and its ping loop
SendEvent(t, c) ==
    /\ tpc[t] = "idle"
    /\ c \in created
    /\ nframes < MaxFrames
    /\ CallSendEvent(t, c, "send_event")
    /\ UNCHANGED <<connections, manager_lock, conn_lock, closed, wfile, created, added>>
    /\ UNCHANGED <<ebVars, rpcVars>>

\* send_event: if self.closed: return False
SeCheck(t) ==
    /\ tpc[t] = "se_check"
    /\ IF closed[tloc[t].conn]
       THEN ReturnFromSendEvent(t, FALSE, FALSE)
       ELSE /\ tpc' = [tpc EXCEPT ![t] = "se_lock"]
            /\ UNCHANGED tloc
    /\ UNCHANGED <<connections, manager_lock, conn_lock, closed, wfile, created, added, nframes>>
    /\ UNCHANGED <<ebVars, rpcVars>>

\* mutant: send_event writes without taking the connection's lock
SeLock_NoLock(t) ==
    /\ tpc[t] = "se_lock"
    /\ tpc' = [tpc EXCEPT ![t] = "se_write"]
    /\ UNCHANGED <<connections, manager_lock, conn_lock, closed, wfile, created, added, nframes, tloc>>
    /\ UNCHANGED <<ebVars, rpcVars>>

\* send_event: with self.lock (acquire)
SeLock(t) ==
    /\ tpc[t] = "se_lock"
    /\ conn_lock[tloc[t].conn] = Free
    /\ conn_lock' = [conn_lock EXCEPT ![tloc[t].conn] = t]
    /\ tpc' = [tpc EXCEPT ![t] = "se_write"]
    /\ UNCHANGED <<connections, manager_lock, closed, wfile, created, added, nframes, tloc>>
    /\ UNCHANGED <<ebVars, rpcVars>>

\* the frame's bytes as they reach the stream: its number and the part
Part(t, part) == <<tloc[t].frame, part>>

\* send_event: self.wfile.write(message), the first bytes of the frame leave;
\* on a broken socket the write raises OSError and the with block releases
\* the lock
SeWrite(t) ==
    /\ tpc[t] = "se_write"
    /\ IF wfile[tloc[t].conn].broken
       THEN /\ conn_lock' = [conn_lock EXCEPT ![tloc[t].conn] = Free]
            /\ tpc' = [tpc EXCEPT ![t] = "se_except"]
            /\ UNCHANGED <<wfile, tloc>>
       ELSE /\ wfile' = [wfile EXCEPT ![tloc[t].conn].stream = Append(@, Part(t, "head"))]
            /\ tpc' = [tpc EXCEPT ![t] = "se_flush"]
            /\ UNCHANGED <<conn_lock, tloc>>
    /\ UNCHANGED <<connections, manager_lock, closed, created, added, nframes>>
    /\ UNCHANGED <<ebVars, rpcVars>>

\* send_event: the rest of the frame leaves and self.wfile.flush(); then the
\* with block releases the lock and the method returns True
SeFlush(t) ==
    /\ tpc[t] = "se_flush"
    /\ conn_lock' = [conn_lock EXCEPT ![tloc[t].conn] = Free]
    /\ IF wfile[tloc[t].conn].broken
       THEN /\ tpc' = [tpc EXCEPT ![t] = "se_except"]
            /\ UNCHANGED <<wfile, tloc>>
       ELSE /\ wfile' = [wfile EXCEPT ![tloc[t].conn].stream = Append(@, Part(t, "tail"))]
            /\ ReturnFromSendEvent(t, TRUE, FALSE)
    /\ UNCHANGED <<connections, manager_lock, closed, created, added, nframes>>
    /\ UNCHANGED <<ebVars, rpcVars>>

\* send_event: except (BrokenPipeError, ConnectionResetError, OSError):
\* self.closed = True; return False
SeExcept(t) ==
    /\ tpc[t] = "se_except"
    /\ closed' = [closed EXCEPT ![tloc[t].conn] = TRUE]
    /\ ReturnFromSendEvent(t, FALSE, TRUE)
    /\ UNCHANGED <<connections, manager_lock, conn_lock, wfile, created, added, nframes>>
    /\ UNCHANGED <<ebVars, rpcVars>>

\* _handle_sse: conn = SSEConnection(self.wfile), and the call of
\* sse_manager.add_connection(conn), to its with self._lock
AddConnection(t, c) ==
    /\ tpc[t] = "idle"
    /\ c \notin created
    /\ c = Cardinality(created) + 1
    /\ created' = created \cup {c}
    /\ tpc' = [tpc EXCEPT ![t] = "add_lock"]
    /\ tloc' = [tloc EXCEPT ![t] = [NoLocals EXCEPT !.op = "add_connection", !.conn = c, !.sid = c]]
    /\ UNCHANGED <<connections, manager_lock, conn_lock, closed, wfile, added, nframes>>
    /\ UNCHANGED <<ebVars, rpcVars>>

\* where each SSEManager method waits for self._lock, and where it goes on
AfterManagerLock ==
    [add_lock |-> "add_insert", rc_lock |-> "rc_pop", gc_lock |-> "gc_get",
     bc_lock |-> "bc_loop", cl_lock |-> "cl_close"]

\* with self._lock (acquire), in any SSEManager method
ManagerAcquire(t) ==
    /\ tpc[t] \in DOMAIN AfterManagerLock
    /\ manager_lock = Free
    /\ manager_lock' = t
    /\ tpc' = [tpc EXCEPT ![t] = AfterManagerLock[tpc[t]]]
    /\ UNCHANGED <<connections, conn_lock, closed, wfile, created, added, nframes, tloc>>
    /\ UNCHANGED <<ebVars, rpcVars>>

\* add_connection: the insertion, the lock's release and the return
AddInsert(t) ==
    /\ tpc[t] = "add_insert"
    /\ connections' = Put(connections, tloc[t].sid)
    /\ added' = added \cup {tloc[t].conn}
    /\ manager_lock' = Free
    /\ tpc' = [tpc EXCEPT ![t] = "idle"]
    /\ tloc' = [tloc EXCEPT ![t] = [NoLocals EXCEPT !.ret = "session_id"]]
    /\ UNCHANGED <<conn_lock, closed, wfile, created, nframes>>
    /\ UNCHANGED <<ebVars, rpcVars>>

\* the call of remove_connection(session_id), to its with self._lock
RemoveConnection(t, sid) ==
    /\ tpc[t] = "idle"
    /\ tpc' = [tpc EXCEPT ![t] = "rc_lock"]
    /\ tloc' = [tloc EXCEPT ![t] = [NoLocals EXCEPT !.op = "remove_connection", !.sid = sid]]
    /\ UNCHANGED <<connections, manager_lock, conn_lock, closed, wfile, created, added, nframes>>
    /\ UNCHANGED <<ebVars, rpcVars>>

\* mutant: remove_connection pops the connection and does not close it
RcPop_NoClose(t) ==
    /\ tpc[t] = "rc_pop"
    /\ connections' = Discard(connections, tloc[t].sid)
    /\ manager_lock' = Free
    /\ tpc' = [tpc EXCEPT ![t] = "idle"]
    /\ tloc' = [tloc EXCEPT ![t] = [NoLocals EXCEPT !.ret = "None"]]
    /\ UNCHANGED <<conn_lock, closed, wfile, created, added, nframes>>
    /\ UNCHANGED <<ebVars, rpcVars>>

\* remove_connection: conn = self._connections.pop(session_id, None); if
\* conn is None the with block ends and the method returns
RcPop(t) ==
    /\ tpc[t] = "rc_pop"
    /\ connections' = Discard(connections, tloc[t].sid)
    /\ IF Get(connections, tloc[t].sid) # 0
       THEN /\ tpc' = [tpc EXCEPT ![t] = "rc_close"]
            /\ tloc' = [tloc EXCEPT ![t].conn = Get(connections, tloc[t].sid)]
            /\ UNCHANGED manager_lock
       ELSE /\ manager_lock' = Free
            /\ tpc' = [tpc EXCEPT ![t] = "idle"]
            /\ tloc' = [tloc EXCEPT ![t] = [NoLocals EXCEPT !.ret = "None"]]
    /\ UNCHANGED <<conn_lock, closed, wfile, created, added, nframes>>
    /\ UNCHANGED <<ebVars, rpcVars>>

\* remove_connection: conn.close(), the lock's release and the return
RcClose(t) ==
    /\ tpc[t] = "rc_close"
    /\ closed' = [closed EXCEPT ![tloc[t].conn] = TRUE]
    /\ manager_lock' = Free
    /\ tpc' = [tpc EXCEPT ![t] = "idle"]
    /\ tloc' = [tloc EXCEPT ![t] = [NoLocals EXCEPT !.ret = "None"]]
    /\ UNCHANGED <<connections, conn_lock, wfile, created, added, nframes>>
    /\ UNCHANGED <<ebVars, rpcVars>>

\* _handle_message: sse_manager.send_to_session(session_id, response,
\* event="message"), to get_connection's with self._lock
SendToSession(t, sid) ==
    /\ tpc[t] = "idle"
    /\ nframes < MaxFrames
    /\ tpc' = [tpc EXCEPT ![t] = "gc_lock"]
    /\ tloc' = [tloc EXCEPT ![t] = [NoLocals EXCEPT !.op = "send_to_session", !.sid = sid]]
    /\ UNCHANGED <<connections, manager_lock, conn_lock, closed, wfile, created, added, nframes>>
    /\ UNCHANGED <<ebVars, rpcVars>>

\* get_connection: the get and the lock's release; send_to_session: if conn:
\* return conn.send_event(...), else return False
GcGet(t) ==
    /\ tpc[t] = "gc_get"
    /\ manager_lock' = Free
    /\ IF Get(connections, tloc[t].sid) # 0
       THEN CallSendEvent(t, Get(connections, tloc[t].sid), "send_to_session")
       ELSE /\ tpc' = [tpc EXCEPT ![t] = "idle"]
            /\ tloc' = [tloc EXCEPT ![t] = [NoLocals EXCEPT !.ret = "False"]]
            /\ UNCHANGED nframes
    /\ UNCHANGED <<connections, conn_lock, closed, wfile, created, added>>
    /\ UNCHANGED <<ebVars, rpcVars>>

\* the call of broadcast(data), to its with self._lock
Broadcast(t) ==
    /\ tpc[t] = "idle"
    /\ nframes < MaxFrames
    /\ tpc' = [tpc EXCEPT ![t] = "bc_lock"]
    /\ tloc' = [tloc EXCEPT ![t] = [NoLocals EXCEPT !.op = "broadcast", !.idx = 1]]
    /\ UNCHANGED <<connections, manager_lock, conn_lock, closed, wfile, created, added, nframes>>
    /\ UNCHANGED <<ebVars, rpcVars>>

\* broadcast: the loop over self._connections.items() calls send_event for
\* the next connection; after the last, the dead ones are popped, the lock
\* is released and the method returns
BcLoop(t) ==
    /\ tpc[t] = "bc_loop"
    /\ IF tloc[t].idx <= Len(connections)
       THEN /\ CallSendEvent(t, connections[tloc[t].idx], "broadcast")
            /\ UNCHANGED <<connections, manager_lock>>
       ELSE /\ connections' = SelectSeq(connections, LAMBDA x : x \notin Values(tloc[t].dead))
            /\ manager_lock' = Free
            /\ tpc' = [tpc EXCEPT ![t] = "idle"]
            /\ tloc' = [tloc EXCEPT ![t] = [NoLocals EXCEPT !.ret = "None"]]
            /\ UNCHANGED nframes
    /\ UNCHANGED <<conn_lock, closed, wfile, created, added>>
    /\ UNCHANGED <<ebVars, rpcVars>>

\* shutdown_server: the call of sse_manager.cleanup(), to its with self._lock
Cleanup(t) ==
    /\ tpc[t] = "idle"
    /\ tpc' = [tpc EXCEPT ![t] = "cl_lock"]
    /\ tloc' = [tloc EXCEPT ![t] = [NoLocals EXCEPT !.op = "cleanup"]]
    /\ UNCHANGED <<connections, manager_lock, conn_lock, closed, wfile, created, added, nframes>>
    /\ UNCHANGED <<ebVars, rpcVars>>

\* cleanup: for conn in self._connections.values(): conn.close()
ClClose(t) ==
    /\ tpc[t] = "cl_close"
    /\ closed' = [c \in Conns |-> closed[c] \/ c \in Values(connections)]
    /\ tpc' = [tpc EXCEPT ![t] = "cl_clear"]
    /\ UNCHANGED <<connections, manager_lock, conn_lock, wfile, created, added, nframes, tloc>>
    /\ UNCHANGED <<ebVars, rpcVars>>

\* mutant: cleanup closes the connections and keeps them in the table
ClClear_Keeps(t) ==
    /\ tpc[t] = "cl_clear"
    /\ manager_lock' = Free
    /\ tpc' = [tpc EXCEPT ![t] = "idle"]
    /\ tloc' = [tloc EXCEPT ![t] = [NoLocals EXCEPT !.ret = "None"]]
    /\ UNCHANGED <<connections, conn_lock, closed, wfile, created, added, nframes>>
    /\ UNCHANGED <<ebVars, rpcVars>>

\* cleanup: self._connections.clear(), the lock's release and the return
ClClear(t) ==
    /\ tpc[t] = "cl_clear"
    /\ connections' = << >>
    /\ manager_lock' = Free
    /\ tpc' = [tpc EXCEPT ![t] = "idle"]
    /\ tloc' = [tloc EXCEPT ![t] = [NoLocals EXCEPT !.ret = "None"]]
    /\ UNCHANGED <<conn_lock, closed, wfile, created, added, nframes>>
    /\ UNCHANGED <<ebVars, rpcVars>>

\* the client goes away: from now on a write to the socket raises
\* BrokenPipeError or ConnectionResetError
BreakPipe(c) ==
    /\ c \in created
    /\ ~wfile[c].broken
    /\ wfile' = [wfile EXCEPT ![c].broken = TRUE]
    /\ UNCHANGED <<connections, manager_lock, conn_lock, closed, created, added, nframes, tpc, tloc>>
    /\ UNCHANGED <<ebVars, rpcVars>>

ServerThread(t) ==
    \/ \E c \in Conns : AddConnection(t, c)
    \/ \E c \in Conns : SendEvent(t, c)
    \/ \E sid \in Conns : SendToSession(t, sid)
    \/ \E sid \in Conns : RemoveConnection(t, sid)
    \/ Broadcast(t)
    \/ Cleanup(t)
    \/ ManagerAcquire(t)
    \/ SeCheck(t) \/ SeLock(t) \/ SeWrite(t) \/ SeFlush(t) \/ SeExcept(t)
    \/ AddInsert(t)
    \/ RcPop(t) \/ RcClose(t)
    \/ GcGet(t)
    \/ BcLoop(t)
    \/ ClClose(t) \/ ClClear(t)

NextSSE ==
    \/ \E t \in Threads : ServerThread(t)
    \/ \E c \in Conns : BreakPipe(c)

SpecSSE == Init /\ [][NextSSE]_vars

\* ------------------------------------------------------- C31
\* the bytes of connection c's stream, and the threads inside send_event's
\* with block for c
Stream(c) == wfile[c].stream
Writing(t, c) == tpc[t] \in {"se_write", "se_flush"} /\ tloc[t].conn = c

\* no frame's bytes lie between the two parts of another frame: a tail
\* follows the head of its own frame at once, and a head that is not the
\* last thing on the stream is followed by its own tail
FramesWhole(c) ==
    \A k \in 1 .. Len(Stream(c)) :
        /\ Stream(c)[k][2] = "tail" =>
               k > 1 /\ Stream(c)[k - 1] = <<Stream(c)[k][1], "head">>
        /\ (Stream(c)[k][2] = "head" /\ k < Len(Stream(c))) =>
               Stream(c)[k + 1] = <<Stream(c)[k][1], "tail">>

C31_Exclusive ==
    \A c \in Conns :
        /\ \A t \in Threads : Writing(t, c) => conn_lock[c] = t
        /\ FramesWhole(c)

\* a write or flush on a broken socket goes to the except clause with the
\* lock released, and the except clause marks the connection closed and
\* returns False to the caller
C31_BrokenPipeStep ==
    \A t \in Threads :
        /\ (tpc[t] \in {"se_write", "se_flush"} /\ wfile[tloc[t].conn].broken
              /\ tpc'[t] # tpc[t]) =>
               /\ tpc'[t] = "se_except"
               /\ conn_lock'[tloc[t].conn] = Free
               /\ wfile' = wfile
        /\ (tpc[t] = "se_except" /\ tpc'[t] # tpc[t]) =>
               /\ closed'[tloc[t].conn]
               /\ IF tloc[t].op = "broadcast"
                  THEN tpc'[t] = "bc_loop"
                       /\ tloc'[t].dead = Append(tloc[t].dead, tloc[t].conn)
                  ELSE tpc'[t] = "idle" /\ tloc'[t].ret = "False"

\* C31: on one SSEConnection, every part of a frame is written by the thread
\* that holds the connection's lock, so the frames of two send_event calls
\* never interleave on the stream, however the ping loop and the threads
\* that deliver responses run; and a send_event whose write hits a broken
\* pipe marks the connection closed and returns False, it does not raise.
C31_WritesAreExclusive == []C31_Exclusive /\ [][C31_BrokenPipeStep]_vars

\* one thread's send_event has hit the broken pipe of the only broken
\* connection and returned False while another thread, which passed the closed check before, holds the same
\* connection's lock and is about to write
C31_Witness ==
    \E t1, t2 \in Threads, c \in Conns :
        /\ t1 # t2
        /\ tpc[t1] = "idle" /\ tloc[t1].ret = "False" /\ tloc[t1].excepted
        /\ closed[c] /\ wfile[c].broken
        /\ \A d \in Conns \ {c} : ~wfile[d].broken
        /\ tpc[t2] = "se_write" /\ tloc[t2].conn = c /\ conn_lock[c] = t2
        /\ tloc[t2].op = "send_to_session"

\* ------------------------------------------------------- C32
\* connection c was added to the table and is no longer in it
TakenOut(c) == c \in added /\ Get(connections, c) = 0
\* thread t waits for the manager's lock
WaitsForManager(t) == tpc[t] \in DOMAIN AfterManagerLock

\* a connection out of the table is closed, the one exception being the
\* connection remove_connection has just popped and closes next, still
\* holding the manager's lock
C32_TakenOutIsClosed ==
    \A c \in Conns :
        TakenOut(c) =>
            \/ closed[c]
            \/ \E t \in Threads :
                   tpc[t] = "rc_close" /\ tloc[t].conn = c /\ manager_lock = t

\* a thread that waits for the manager's lock holds no connection's lock
\* and not the manager's lock itself, and a thread that holds a
\* connection's lock is inside send_event's with block
C32_LockOrder ==
    \A t \in Threads :
        /\ WaitsForManager(t) => manager_lock # t /\ \A c \in Conns : conn_lock[c] # t
        /\ \A c \in Conns : conn_lock[c] = t => Writing(t, c)

\* whenever some thread is inside an operation, some such thread can go on
C32_NoDeadlock ==
    (\E t \in Threads : tpc[t] # "idle") =>
        \E t \in Threads : tpc[t] # "idle" /\ ENABLED ServerThread(t)

\* remove_connection of a session id that is not in the table changes
\* nothing and returns None; cleanup's last step leaves the table empty
C32_ManagerStep ==
    \A t \in Threads :
        /\ (tpc[t] = "rc_pop" /\ Get(connections, tloc[t].sid) = 0 /\ tpc'[t] # tpc[t]) =>
               /\ connections' = connections /\ closed' = closed
               /\ tpc'[t] = "idle" /\ tloc'[t].ret = "None"
               /\ manager_lock' = Free
        /\ (tpc[t] = "cl_clear" /\ tpc'[t] # tpc[t]) =>
               /\ connections' = << >>
               /\ tpc'[t] = "idle"
               /\ \A c \in added : closed'[c]

\* C32: under any interleaving of add_connection, remove_connection,
\* broadcast, send_to_session and cleanup, a connection that was taken out of
\* the manager's table (by remove_connection, by broadcast's sweep of dead
\* connections or by cleanup) is closed; remove_connection of an unknown
\* session id is a no-op; the table is empty when cleanup returns; and the
\* locks are only taken manager first, connection second, so the operations
\* never block one another for good.
C32_ManagerInvariant ==
    /\ [](C32_TakenOutIsClosed /\ C32_LockOrder /\ C32_NoDeadlock)
    /\ [][C32_ManagerStep]_vars

\* one connection has been taken out with its socket intact, and is closed;
\* a broadcast holds the manager's lock and the other connection's lock
\* while another thread waits for the manager's lock
C32_Witness ==
    \E t1, t2 \in Threads, c1, c2 \in Conns :
        /\ t1 # t2 /\ c1 # c2
        /\ TakenOut(c1) /\ closed[c1] /\ ~wfile[c1].broken
        /\ tloc[t1].op = "broadcast" /\ Writing(t1, c2)
        /\ manager_lock = t1 /\ conn_lock[c2] = t1
        /\ WaitsForManager(t2)

\* ------------------------------------------------------- MCPProtocol
\* MCPProtocol.handle_request (mcp/protocol.py) applied to the requests
\* parse_request (mcp/jsonrpc.py) can hand it: method, params and id are
\* whatever JSON values the client sent.

\* JSON values besides None, str and int: an array, and an object given by
\* the value of its key "name" (no key: the empty tuple)
PyList == [tag |-> "list", text |-> << >>, isError |-> FALSE]
PyDict(name) == [tag |-> "dict", text |-> name, isError |-> FALSE]
\* a list and a dict cannot be a dict's key
Hashable(v) == v.tag \notin {"list", "dict"}

METHOD_NOT_FOUND == 0 - 32601
INTERNAL_ERROR == 0 - 32603

\* the keys of MCPProtocol._handlers
HandlerNames ==
    {"initialize", "initialized", "ping", "tools/list", "tools/call",
     "resources/list", "resources/read", "prompts/list"}

Methods ==
    {PyStr("initialize"), PyStr("ping"), PyStr("tools/call"), PyStr("resources/read"),
     PyStr("no/such"), PyInt(5), PyList}
ParamValues == {PyDict(<<"echo">>), PyDict(<<"">>), PyDict(<< >>), PyList}
RequestIds == {PyNone, PyInt(0), PyInt(1), PyStr("a")}
Requests == [method : Methods, params : ParamValues, id : RequestIds]
\* what tool_executor.execute_tool can do: return an envelope or None, or
\* raise
ExecuteToolOutcomes == Outcomes \cup {NoOutcome}

\* build_response(result, request_id)
build_response(result, request_id) ==
    [tag |-> "response", id |-> request_id, code |-> 0, result |-> result]
\* build_error(code, message, request_id); the message is kept as the
\* pieces str.format puts together
build_error(code, message, request_id) ==
    [tag |-> "error", id |-> request_id, code |-> code,
     result |-> [tag |-> "str", text |-> message, isError |-> FALSE]]

\* "{}".format(method) for a str, an int below ten or an empty list
Format(v) ==
    IF v.tag = "int" THEN <<Digits[v.text[1] + 1]>>
    ELSE IF v.tag = "list" THEN <<"[]">>
    ELSE v.text

\* self._handlers.get(method): the handler's name, None, or TypeError for a
\* method that cannot be hashed
HandlersGet(method) ==
    IF ~Hashable(method) THEN Raised("TypeError")
    ELSE IF method.tag = "str" /\ method.text[1] \in HandlerNames THEN method
    ELSE PyNone

\* params.get("name") on a dict
GetName(params) == IF params.text = << >> THEN PyNone ELSE PyStr(params.text[1])
AttributeError == [raises |-> TRUE, value |-> PyStr("'list' object has no attribute 'get'")]

\* _handle_tools_call reaches self.tool_executor.execute_tool
ReachesExecuteTool(req, tool_executor) ==
    /\ HandlersGet(req.method) = PyStr("tools/call")
    /\ req.params.tag = "dict"
    /\ Truthy(GetName(req.params))
    /\ tool_executor

\* _handle_tools_call(params), given what execute_tool does
_handle_tools_call(params, tool_executor, outcome) ==
    IF params.tag # "dict" THEN AttributeError
    ELSE IF ~Truthy(GetName(params))
    THEN [raises |-> TRUE, value |-> PyStr("Missing tool name")]
    ELSE IF ~tool_executor
    THEN [raises |-> FALSE, value |-> Envelope(<<"No tool executor configured">>, TRUE)]
    ELSE IF outcome.raises
    THEN [raises |-> FALSE, value |-> ErrorResult(outcome.value)]
    ELSE outcome

\* handler(params) for the handler registered under name
CallHandler(name, params, tool_executor, outcome) ==
    IF name = "tools/call" THEN _handle_tools_call(params, tool_executor, outcome)
    ELSE IF name = "resources/read"
    THEN IF params.tag # "dict" THEN AttributeError
         ELSE [raises |-> FALSE, value |-> PyDict(<<"contents">>)]
    ELSE IF name = "initialize" THEN [raises |-> FALSE, value |-> PyDict(<<"serverInfo">>)]
    ELSE [raises |-> FALSE, value |-> PyDict(<< >>)]

\* what the handler does for the request, when there is one
HandlerResult(req, tool_executor, outcome) ==
    CallHandler(HandlersGet(req.method).text[1], req.params, tool_executor, outcome)

\* MCPProtocol.handle_request(request): the return value, or the exception
\* that leaves the method
handle_request(req, tool_executor, outcome) ==
    IF HandlersGet(req.method).tag = "raised" THEN HandlersGet(req.method)
    ELSE IF HandlersGet(req.method) = PyNone
    THEN IF req.id # PyNone
         THEN build_error(METHOD_NOT_FOUND, <<"Method not found: ">> \o Format(req.method),
                          req.id)
         ELSE PyNone
    ELSE IF HandlerResult(req, tool_executor, outcome).raises
    THEN IF req.id # PyNone
         THEN build_error(INTERNAL_ERROR,
                          HandlerResult(req, tool_executor, outcome).value.text, req.id)
         ELSE PyNone
    ELSE IF req.id # PyNone
    THEN build_response(HandlerResult(req, tool_executor, outcome).value, req.id)
    ELSE PyNone

\* MCPProtocol.__init__(server_name, server_version, tool_executor)
NewProtocol(tool_executor) ==
    /\ ~proto.built
    /\ proto' = [NoProto EXCEPT !.built = TRUE, !.tool_executor = tool_executor]
    /\ UNCHANGED <<request, response>>
    /\ UNCHANGED <<ebVars, sseVars>>

\* the handler is found and called
HandlerRuns(req) == HandlersGet(req.method).tag = "str"

\* _handle_message: response = self.server.mcp_protocol.handle_request(request)
HandleRequest(req, outcome) ==
    /\ proto.built
    /\ outcome = NoOutcome \/ ReachesExecuteTool(req, proto.tool_executor)
    /\ request' = req
    /\ response' = handle_request(req, proto.tool_executor, outcome)
    /\ proto' = [proto EXCEPT
                   !.handled = TRUE,
                   !.initialized = @ \/ req.method = PyStr("initialize"),
                   !.raised = HandlerRuns(req)
                              /\ HandlerResult(req, proto.tool_executor, outcome).raises,
                   !.executed = ReachesExecuteTool(req, proto.tool_executor),
                   !.outcome = outcome]
    /\ UNCHANGED <<ebVars, sseVars>>

NextProtocol ==
    \/ \E tool_executor \in BOOLEAN : NewProtocol(tool_executor)
    \/ \E req \in Requests, outcome \in ExecuteToolOutcomes : HandleRequest(req, outcome)

SpecProtocol == Init /\ [][NextProtocol]_vars

\* ------------------------------------------------------- C33
\* the last handle_request call returned a JSON-RPC response of the kind the
\* request calls for: METHOD_NOT_FOUND when no handler is registered under
\* the method, INTERNAL_ERROR when the handler raised, the handler's result
\* otherwise
RightResponse ==
    /\ response.tag \in {"response", "error"}
    /\ response.id = request.id
    /\ IF ~HandlerRuns(request)
       THEN response.tag = "error" /\ response.code = METHOD_NOT_FOUND
       ELSE IF proto.raised
       THEN response.tag = "error" /\ response.code = INTERNAL_ERROR
       ELSE response.tag = "response"

\* the tool execution of the last call failed: execute_tool raised or
\* returned an error-flagged result
ToolFailed ==
    /\ proto.executed
    /\ proto.outcome.raises \/ proto.outcome.value.isError

\* C33: handle_request produces a response exactly when the request carries
\* an id.  For an id that is not None it returns a JSON-RPC response: the
\* handler's result, METHOD_NOT_FOUND for an unknown method, INTERNAL_ERROR
\* when the handler raises; for a notification (id None) it returns None in
\* all three cases; and a tool execution that fails inside tools/call comes
\* back as an error-flagged tool result, not as a JSON-RPC error.
C33_ResponseIffId ==
    proto.handled =>
        /\ request.id # PyNone => RightResponse
        /\ request.id = PyNone => response = PyNone
        /\ (ToolFailed /\ request.id # PyNone) =>
               /\ response.tag = "response"
               /\ response.result.tag = "envelope" /\ response.result.isError

====
